---- MODULE Spec2Model ----
(***************************************************************************)
(* Model of the jsktoolbox logging pipeline:                               *)
(*   libs/base_logs.py   LogsLevelKeys, LoggerQueue                        *)
(*   logstool/logs.py    LoggerClient, LoggerEngine, ThLoggerProcessor     *)
(*   edmctool/logs.py    Log, LogLevels                                    *)
(*                                                                         *)
(* The specifications share the variables:                                 *)
(*   Spec       producers, main thread and the ThLoggerProcessor thread    *)
(*              interleaved at the granularity of the atomic list          *)
(*              operations of LoggerQueue;                                 *)
(*   QueueSpec  single-threaded calls of LoggerQueue.put/get,              *)
(*              LoggerClient.message and Log();                            *)
(*   RouteSpec  single-threaded calls of LoggerEngine.add_engine,          *)
(*              LoggerQueue.put and LoggerEngine.send;                     *)
(*   ClientSpec single-threaded calls of one LoggerClient: message, the    *)
(*              convenience setters, the logs_queue setter, and send();    *)
(*   LifeSpec   one ThLoggerProcessor from its construction: the setters,  *)
(*              start(), run(), stop() and join(), with one producer.      *)
(*   DispatchSpec  single-threaded add_engine for ERROR, put and send();   *)
(*   FairSpec   the threads of Spec with one producer, the thread of run() *)
(*              and the caller of stop() scheduled fairly;                 *)
(*   LogSpec    single-threaded calls of the Log and the LogProcessor of   *)
(*              edmctool;                                                  *)
(*   FileSpec   single-threaded calls of one FileProcessor of configtool   *)
(*              (configtool/libs/file.py);                                 *)
(*   BindSpec   the setters of ThLoggerProcessor with a LoggerClient that  *)
(*              may hold a queue of its own, message and send();           *)
(*   LateSpec   add_engine, LoggerQueue.put and send(), with the tables    *)
(*              each item was popped under recorded;                       *)
(*   DataSpec   single-threaded calls of one DataProcessor of configtool   *)
(*              (configtool/libs/data.py);                                 *)
(*   WordSpec   one Word16 of netaddresstool (libs/words.py) and the       *)
(*              assignments to its value.                                  *)
(***************************************************************************)
EXTENDS Integers, Sequences, FiniteSets, TLC

(***************************************************************************)
(* Python values that reach the validated parameters.  kind is the type    *)
(* that isinstance() sees, s the value of a str, n the value of an int, e  *)
(* the elements of a list.                                                 *)
(***************************************************************************)
PyStr(s) == [kind |-> "str", s |-> s, n |-> 0, e |-> <<>>]

PyInt(n) == [kind |-> "int", s |-> "", n |-> n, e |-> <<>>]

PyNone == [kind |-> "none", s |-> "", n |-> 0, e |-> <<>>]

\* repr() of the str elements of a list, separated as repr(list) does
RECURSIVE ReprItems(_)
ReprItems(elems) ==
  IF elems = <<>> THEN ""
  ELSE "'" \o Head(elems) \o "'"
         \o (IF Len(elems) > 1 THEN ", " \o ReprItems(Tail(elems)) ELSE "")

\* the texts of the list given to the convenience setters
ErrTexts == <<"disk full", "retrying">>

\* a list of str: s is what str() and an f-string make of it, n its length
PyList(elems) ==
  [kind |-> "list", s |-> "[" \o ReprItems(elems) \o "]", n |-> Len(elems), e |-> elems]

\* base_logs.py LogsLevelKeys.keys
LogsLevelKeys ==
  {"ALERT", "CRITICAL", "DEBUG", "EMERGENCY", "ERROR", "INFO", "NOTICE", "WARNING"}

\* `log_level in LogsLevelKeys.keys`: tuple membership by ==, case-sensitive
InLevelKeys(v) == v.kind = "str" /\ v.s \in LogsLevelKeys

\* edmctool LogLevels.__keys: the numeric levels of the logging module
LogLevelsKeys == {20, 10, 30, 40, 0, 50}

\* edmctool LogLevels.__txt keys
LogLevelsTxt == {"INFO", "DEBUG", "WARNING", "ERROR", "CRITICAL", "NOTSET"}

\* edmctool LogLevels.has_key
has_key(v) ==
  \/ v.kind = "int" /\ v.n \in LogLevelsKeys
  \/ v.kind = "str" /\ v.s \in LogLevelsTxt

\* edmctool Log.__init__: "none" or the error raised
LogInit(v) == IF v.kind = "int" /\ has_key(v) THEN "none" ELSE "TypeError"

(***************************************************************************)
(* LoggerQueue.  The list holds [log_level, message] entries; get() of an  *)
(* empty list yields None, written NoItem.                                 *)
(***************************************************************************)
NoItem == <<>>

\* put that inserts at the head
MutQueuePutFront(q, message, log_level) ==
  IF ~InLevelKeys(log_level)
    THEN [err |-> "KeyError", queue |-> q]
    ELSE [err |-> "none", queue |-> <<<<log_level.s, message>>>> \o q]

\* put without the check of log_level
MutQueuePutUnchecked(q, message, log_level) ==
  [err |-> "none", queue |-> Append(q, <<log_level.s, message>>)]

\* LoggerQueue.put
QueuePut(q, message, log_level) ==
  IF ~InLevelKeys(log_level)
    THEN [err |-> "KeyError", queue |-> q]
    ELSE [err |-> "none", queue |-> Append(q, <<log_level.s, message>>)]

\* get that drops the item behind the one it returns
MutQueueGetSkip(q) ==
  IF q = <<>>
    THEN [item |-> NoItem, queue |-> q]
    ELSE [item |-> Head(q), queue |-> IF Len(q) > 1 THEN Tail(Tail(q)) ELSE <<>>]

\* get that reads the head without removing it
MutQueueGetPeek(q) ==
  IF q = <<>>
    THEN [item |-> NoItem, queue |-> q]
    ELSE [item |-> Head(q), queue |-> q]

\* LoggerQueue.get
QueueGet(q) ==
  IF q = <<>>
    THEN [item |-> NoItem, queue |-> q]
    ELSE [item |-> Head(q), queue |-> Tail(q)]

\* f"{message}" of LoggerClient.message for a non-str message
FormatStr(v) ==
  IF v.kind = "str" THEN v.s
  ELSE IF v.kind = "list" THEN v.s
  ELSE IF v.kind = "none" THEN "None"
  ELSE IF v.n = 0 THEN "0"
  ELSE IF v.n = 7 THEN "7"
  ELSE IF v.n = 10 THEN "10"
  ELSE IF v.n = 20 THEN "20"
  ELSE "<int>"

\* a message() that does not put the name before the text
MutClientMessageNoName(q, name, message, log_level) ==
  IF log_level.kind # "str"
    THEN [err |-> "TypeError", queue |-> q]
  ELSE IF log_level.s \notin LogsLevelKeys
    THEN [err |-> "KeyError", queue |-> q]
  ELSE QueuePut(q, FormatStr(message), log_level)

\* a message() that puts one item for each element of a list
MutClientMessagePerElement(q, name, message, log_level) ==
  IF log_level.kind # "str"
    THEN [err |-> "TypeError", queue |-> q]
  ELSE IF log_level.s \notin LogsLevelKeys
    THEN [err |-> "KeyError", queue |-> q]
  ELSE IF message.kind = "list"
    THEN [err |-> "none",
          queue |-> q \o [i \in 1..message.n |-> <<log_level.s, ErrTexts[i]>>]]
  ELSE LET m1 == FormatStr(message)
           m2 == IF name # PyNone THEN "[" \o name.s \o "] " \o m1 ELSE m1
       IN  QueuePut(q, m2, log_level)

\* LoggerClient.message on a client bound to queue q
ClientMessage(q, name, message, log_level) ==
  IF log_level.kind # "str"
    THEN [err |-> "TypeError", queue |-> q]
  ELSE IF log_level.s \notin LogsLevelKeys
    THEN [err |-> "KeyError", queue |-> q]
  ELSE LET m1 == FormatStr(message)
           m2 == IF name # PyNone THEN "[" \o name.s \o "] " \o m1 ELSE m1
       IN  QueuePut(q, m2, log_level)

\* a message() that puts the item on the queue of the engine although the
\* client has none
MutMessageOnAnyQueue(cq, q, name, message, log_level) ==
  ClientMessage(q, name, message, log_level)

\* LoggerClient.message, lines 74-96, on a client whose logs_queue is cq:
\* after the level is validated, `self.logs_queue.put` on None raises
MessageOn(cq, q, name, message, log_level) ==
  LET r == ClientMessage(q, name, message, log_level) IN
  IF cq = "none" /\ r.err = "none"
    THEN [err |-> "AttributeError", queue |-> q]
    ELSE r

\* the setters message_alert ... message_warning and the level of each
ConvenienceLevel ==
  [op \in {"message_alert", "message_critical", "message_debug", "message_emergency",
           "message_error", "message_info", "message_notice", "message_warning"} |->
     CASE op = "message_alert" -> "ALERT"
       [] op = "message_critical" -> "CRITICAL"
       [] op = "message_debug" -> "DEBUG"
       [] op = "message_emergency" -> "EMERGENCY"
       [] op = "message_error" -> "ERROR"
       [] op = "message_info" -> "INFO"
       [] op = "message_notice" -> "NOTICE"
       [] op = "message_warning" -> "WARNING"]

(***************************************************************************)
(* State.                                                                  *)
(***************************************************************************)
VARIABLES
  queue,         \* LoggerEngine.logs_queue: the list of LoggerQueue
  conf_present,  \* Keys.CONF in LoggerEngine._data
  conf,          \* LoggerEngine._data[Keys.CONF]: level -> list of engines
  no_conf,       \* LoggerEngine._data[Keys.NO_CONF]: the default table
  sent,          \* every engine.send(message) call made so far, in order
  popped,        \* every item LoggerEngine.send took from the queue, in order
  last,          \* the last single-threaded call: its arguments, its outcome
                 \* and, of a send(), the items popped and the calls made
  debug,         \* ThLoggerProcessor._debug
  stop_event,    \* ThLoggerProcessor._stop_event is set
  wpc,           \* where the thread of ThLoggerProcessor stands in run()
  final,         \* the send() in progress is the one after the loop
  cur,           \* send(): the item popped and being sent, or NoItem
  tbl,           \* send(): the table whose list is being iterated
  idx,           \* send(): the index of the next engine of that list
  started,       \* start() has been called
  stop_pc,       \* where the caller of stop() stands
  joined,        \* join() has returned
  before_stop,   \* the texts whose put had completed when stop() was called
  ppos,          \* the number of message() calls each producer has made
  pushed,        \* per thread, the items whose put has completed, in order
  leo,           \* ThLoggerProcessor.logger_engine is set
  lco,           \* ThLoggerProcessor.logger_client is set
  cli_queue,     \* the LoggerClient's logs_queue: "none" or "engine"
  cli_name,      \* the LoggerClient's name, or PyNone
  ncycles,       \* history: the passes of run()'s loop begun so far
  ndrain,        \* history: the send() calls run() has made so far
  late,          \* history: the texts put after stop() was called and
                 \* before the send() after the loop was called
  flushed,       \* history: the texts popped by the send() after the loop
  stop_first,    \* history: a call of stop() had ended when start() was called
  early,         \* history: the texts put before start() was called
  lg_made,       \* a Log of edmctool has been constructed
  lg_level,      \* Log.loglevel
  lg_data,       \* Log.log: the list of lines
  lg_out,        \* the last call on the Log or of LogProcessor.send: its
                 \* error and the calls made on the logging.Logger, in order
  fs_kind,       \* the file system: what each path names, "missing",
                 \* "file" or "dir"
  fs_text,       \* the file system: the content of each path that is a file
  fp_file,       \* FileProcessor.file: the path, or "" where it is None
  fp_out,        \* the last call on the FileProcessor: its arguments, its
                 \* outcome, and what its path named before the call
  oqueue,        \* a LoggerQueue that is not the one of the LoggerEngine
  dp_main,       \* DataProcessor.main_section: a name, or NoName for None
  dp_data,       \* DataProcessor._data["data"]: the list of SectionModel,
                 \* each with its name and its list of VariableModel
  dp_out,        \* the last call on the DataProcessor: its arguments, its
                 \* outcome, and the list of sections before the call
  w16_made,      \* a Word16 has been constructed
  w16_value,     \* Word16.value
  w16_out,       \* the last assignment to Word16.value: its argument, its
                 \* error, and the value held before
  qroute,        \* history: for each queued item, the engines its level
                 \* resolved to when it was put
  proute         \* history: the same for the items the last send() popped

qvars == <<queue>>

evars == <<conf_present, conf, no_conf>>

hvars == <<sent, popped>>

\* the thread of ThLoggerProcessor
wvars == <<debug, stop_event, wpc, final, cur, tbl, idx>>

\* the thread that starts, stops and joins it, and the producers
mvars == <<started, stop_pc, joined, before_stop, ppos, pushed>>

\* what is bound to the ThLoggerProcessor, and the LoggerClient
bvars == <<leo, lco, cli_queue, cli_name>>

\* the history variables of LifeSpec
gvars == <<ncycles, ndrain, late, flushed, stop_first, early>>

\* the Log and the LogProcessor of edmctool, the FileProcessor and its file
\* the Log, the FileProcessor with its files, the DataProcessor, the Word16
lvars == <<lg_made, lg_level, lg_data, lg_out>>

fvars == <<fs_kind, fs_text, fp_file, fp_out>>

dvars == <<dp_main, dp_data, dp_out>>

uvars == <<w16_made, w16_value, w16_out>>

\* the history of LateSpec
rvars == <<qroute, proute>>

yvars == <<oqueue, dp_main, dp_data, dp_out, w16_made, w16_value, w16_out,
           qroute, proute>>

xvars == <<lg_made, lg_level, lg_data, lg_out, fs_kind, fs_text, fp_file, fp_out,
           yvars>>

vars == <<queue, conf_present, conf, no_conf, sent, popped, last,
          debug, stop_event, wpc, final, cur, tbl, idx,
          started, stop_pc, joined, before_stop, ppos, pushed,
          leo, lco, cli_queue, cli_name, ncycles, ndrain, late, flushed,
          stop_first, early,
          lg_made, lg_level, lg_data, lg_out, fs_kind, fs_text, fp_file, fp_out,
          oqueue, dp_main, dp_data, dp_out, w16_made, w16_value, w16_out,
          qroute, proute>>

\* the producer threads
Procs == {"p1", "p2"}

Threads == Procs \cup {"main", "worker"}

\* Engine objects: the concrete class and the identity of the instance
Sink(cls, id) == [cls |-> cls, id |-> id]

\* a default table that sends DEBUG to stdout
MutDefaultTable ==
  [l \in {"INFO", "WARNING", "NOTICE", "DEBUG", "ERROR", "CRITICAL"} |->
     IF l \in {"ERROR", "CRITICAL"}
       THEN <<Sink("LoggerEngineStdout", 105), Sink("LoggerEngineStderr", 106)>>
       ELSE <<Sink("LoggerEngineStdout", 101)>>]

\* LoggerEngine.__init__: the default table
DefaultTable ==
  [l \in {"INFO", "WARNING", "NOTICE", "DEBUG", "ERROR", "CRITICAL"} |->
     CASE l = "INFO" -> <<Sink("LoggerEngineStdout", 101)>>
       [] l = "WARNING" -> <<Sink("LoggerEngineStdout", 102)>>
       [] l = "NOTICE" -> <<Sink("LoggerEngineStdout", 103)>>
       [] l = "DEBUG" -> <<Sink("LoggerEngineStderr", 104)>>
       [] l = "ERROR" -> <<Sink("LoggerEngineStdout", 105), Sink("LoggerEngineStderr", 106)>>
       [] l = "CRITICAL" -> <<Sink("LoggerEngineStdout", 107), Sink("LoggerEngineStderr", 108)>>]

\* an empty dict
EmptyDict == [l \in {} |-> <<>>]

\* a value that is no ILoggerEngine
NoEngine == Sink("object", 0)

NoCall == [op |-> "init", level |-> PyNone, text |-> "", err |-> "none",
           item |-> NoItem, before |-> 0, engine |-> NoEngine,
              calls |-> <<>>, pops |-> <<>>, arg |-> PyNone]

\* LoggerEngine.__init__ (and no call made yet)
EngineInit ==
  /\ queue = <<>>
  /\ conf_present = FALSE
  /\ conf = EmptyDict
  /\ no_conf = DefaultTable
  /\ sent = <<>>
  /\ popped = <<>>
  /\ last = NoCall

\* ThLoggerProcessor.__init__ with the given debug, nothing started
ThreadInit(dbg) ==
  /\ debug = dbg
  /\ stop_event = FALSE
  /\ wpc = "idle"
  /\ final = FALSE
  /\ cur = NoItem
  /\ tbl = "none"
  /\ idx = 0
  /\ started = FALSE
  /\ stop_pc = "none"
  /\ joined = FALSE
  /\ before_stop = {}
  /\ ppos = [p \in Procs |-> 0]
  /\ pushed = [t \in Threads |-> <<>>]
  /\ ncycles = 0
  /\ ndrain = 0
  /\ late = {}
  /\ flushed = {}
  /\ stop_first = FALSE
  /\ early = {}

\* no call on a Log, a LogProcessor or a FileProcessor was made
NoLogCall == [op |-> "init", arg |-> PyNone, before |-> 0, err |-> "none",
              calls |-> <<>>]

NoFileCall == [op |-> "init", data |-> "", ret |-> FALSE, err |-> "none",
               out |-> "", kind |-> "missing", text |-> ""]

\* the paths: a directory that exists, and two paths in it
Paths == {"/tmp", "/tmp/a.conf", "/tmp/b.conf"}

\* no Log was constructed
NoLog ==
  /\ lg_made = FALSE
  /\ lg_level = 0
  /\ lg_data = <<>>
  /\ lg_out = NoLogCall

\* FileProcessor() with a file that names nothing
NoFile ==
  /\ fs_kind = [p \in Paths |-> IF p = "/tmp" THEN "dir" ELSE "missing"]
  /\ fs_text = [p \in Paths |-> ""]
  /\ fp_file = ""
  /\ fp_out = NoFileCall

\* None where a name is expected; names are sequences of characters
NoName == <<"None">>

\* no call on a DataProcessor or a Word16 was made
NoDataCall == [op |-> "init", section |-> NoName, name |-> NoName, value |-> 0,
               err |-> "none", out |-> 0, found |-> FALSE, before |-> <<>>]

NoWordCall == [op |-> "init", arg |-> PyNone, err |-> "none", before |-> 0]

\* the other LoggerQueue is empty, DataProcessor() holds no section, and no
\* Word16 was constructed
NoRest ==
  /\ oqueue = <<>>
  /\ dp_main = NoName
  /\ dp_data = <<>>
  /\ dp_out = NoDataCall
  /\ w16_made = FALSE
  /\ w16_value = 0
  /\ w16_out = NoWordCall
  /\ qroute = <<>>
  /\ proute = <<>>

\* the logger_engine and logger_client setters were both called, with a
\* client without name: the client has the queue of the engine
BoundInit ==
  /\ leo = TRUE
  /\ lco = TRUE
  /\ cli_queue = "engine"
  /\ cli_name = PyNone

\* the single-threaded specifications: an engine, and no thread
ApiInit == EngineInit /\ ThreadInit(FALSE) /\ BoundInit /\ NoLog /\ NoFile /\ NoRest

(***************************************************************************)
(* QueueSpec: single-threaded use of LoggerQueue, LoggerClient and Log.    *)
(***************************************************************************)
MaxQueue == 2

\* candidate levels: the 8 keys, near misses, and values of other types
LevelCandidates ==
  {PyStr(k) : k \in LogsLevelKeys}
    \cup {PyStr("info"), PyStr("FOO"), PyStr("NOTSET"), PyInt(10), PyInt(20),
          PyInt(7), PyNone}

QTexts == {"a"}

ClientNames == {PyNone, PyStr("db")}

\* queue.put(message, log_level)
QPut(message, log_level) ==
  LET r == QueuePut(queue, message, log_level) IN
  /\ Len(r.queue) <= MaxQueue
  /\ queue' = r.queue
  /\ last' = [op |-> "put", level |-> log_level, text |-> message, err |-> r.err,
              item |-> NoItem, before |-> Len(queue), engine |-> NoEngine,
              calls |-> <<>>, pops |-> <<>>, arg |-> PyNone]
  /\ UNCHANGED <<evars, hvars, wvars, mvars, bvars, gvars, xvars>>

\* queue.get()
QGet ==
  LET r == QueueGet(queue) IN
  /\ queue' = r.queue
  /\ last' = [op |-> "get", level |-> PyNone, text |-> "", err |-> "none",
              item |-> r.item, before |-> Len(queue), engine |-> NoEngine,
              calls |-> <<>>, pops |-> <<>>, arg |-> PyNone]
  /\ UNCHANGED <<evars, hvars, wvars, mvars, bvars, gvars, xvars>>

\* LoggerClient(queue, name).message(message, log_level)
QMessage(name, message, log_level) ==
  LET r == ClientMessage(queue, name, PyStr(message), log_level) IN
  /\ Len(r.queue) <= MaxQueue
  /\ queue' = r.queue
  /\ last' = [op |-> "message", level |-> log_level, text |-> message, err |-> r.err,
              item |-> NoItem, before |-> Len(queue), engine |-> NoEngine,
              calls |-> <<>>, pops |-> <<>>, arg |-> PyNone]
  /\ UNCHANGED <<evars, hvars, wvars, mvars, bvars, gvars, xvars>>

\* Log(level) of edmctool
QLog(level) ==
  /\ last' = [op |-> "Log", level |-> level, text |-> "", err |-> LogInit(level),
              item |-> NoItem, before |-> Len(queue), engine |-> NoEngine,
              calls |-> <<>>, pops |-> <<>>, arg |-> PyNone]
  /\ UNCHANGED <<qvars, evars, hvars, wvars, mvars, bvars, gvars, xvars>>

QueueNext ==
  \/ \E m \in QTexts, l \in LevelCandidates : QPut(m, l)
  \/ QGet
  \/ \E n \in ClientNames, m \in QTexts, l \in LevelCandidates : QMessage(n, m, l)
  \/ \E l \in LevelCandidates : QLog(l)

QueueSpec == ApiInit /\ [][QueueNext]_vars

(***************************************************************************)
(* LoggerEngine: the routing tables, add_engine and send.                  *)
(***************************************************************************)
\* the classes derived from ILoggerEngine that the model registers
EngineClasses == {"LoggerEngineStdout", "LoggerEngineStderr"}

\* isinstance(engine, ILoggerEngine)
IsEngine(e) == e.cls \in EngineClasses

\* add_engine that appends whatever the list holds
MutAddToListAppend(lst, engine) == Append(lst, engine)

\* add_engine that puts an engine of a new class at the head of the list
MutAddToListFront(lst, engine) ==
  IF \E i \in 1..Len(lst) : lst[i].cls = engine.cls
    THEN [i \in 1..Len(lst) |-> IF lst[i].cls = engine.cls THEN engine ELSE lst[i]]
    ELSE <<engine>> \o lst

\* add_engine, lines 227-236: the list of a level that has one already
AddToList(lst, engine) ==
  IF \E i \in 1..Len(lst) : lst[i].cls = engine.cls
    THEN [i \in 1..Len(lst) |-> IF lst[i].cls = engine.cls THEN engine ELSE lst[i]]
    ELSE Append(lst, engine)

\* an add_engine that starts the custom table anew with the level it is given
MutAddEngineFresh(cp, cf, log_level, engine) ==
  IF log_level.kind # "str" \/ ~IsEngine(engine)
    THEN [err |-> "TypeError", conf_present |-> cp, conf |-> cf]
    ELSE [err |-> "none", conf_present |-> TRUE,
          conf |-> [l \in {log_level.s} |-> <<engine>>]]

\* LoggerEngine.add_engine on the tables (cp, cf)
AddEngine(cp, cf, log_level, engine) ==
  IF log_level.kind # "str" \/ ~IsEngine(engine)
    THEN [err |-> "TypeError", conf_present |-> cp, conf |-> cf]
  ELSE IF ~cp
    THEN [err |-> "none", conf_present |-> TRUE,
          conf |-> [l \in {log_level.s} |-> <<engine>>]]
  ELSE IF log_level.s \notin DOMAIN cf
    THEN [err |-> "none", conf_present |-> TRUE,
          conf |-> [l \in DOMAIN cf \cup {log_level.s} |->
                      IF l = log_level.s THEN <<engine>> ELSE cf[l]]]
  ELSE [err |-> "none", conf_present |-> TRUE,
        conf |-> [cf EXCEPT ![log_level.s] = AddToList(cf[log_level.s], engine)]]

\* a send() that never looks at the custom table
MutResolveTableDefault(cp, cf, nc, log_level) ==
  IF log_level \in DOMAIN nc THEN "no_conf" ELSE "none"

\* send that falls back to the default list of a level without custom list
MutResolveFallback(cp, cf, nc, log_level) ==
  IF cp /\ log_level \in DOMAIN cf
    THEN cf[log_level]
    ELSE IF log_level \in DOMAIN nc THEN nc[log_level] ELSE <<>>

\* LoggerEngine.send, lines 250-259: the table that an item of log_level is
\* routed by, "none" when that table has no list for the level
ResolveTable(cp, cf, nc, log_level) ==
  IF cp /\ Cardinality(DOMAIN cf) > 0
    THEN IF log_level \in DOMAIN cf THEN "conf" ELSE "none"
    ELSE IF log_level \in DOMAIN nc THEN "no_conf" ELSE "none"

\* a send() that goes on from the default list to the custom list
MutListOfBoth(t, cf, nc, log_level) ==
  IF t = "conf" THEN cf[log_level]
  ELSE IF t = "no_conf"
    THEN nc[log_level] \o (IF log_level \in DOMAIN cf THEN cf[log_level] ELSE <<>>)
  ELSE <<>>

\* the list that send() iterates: the list object of the level in table t
ListOf(t, cf, nc, log_level) ==
  IF t = "conf" THEN cf[log_level]
  ELSE IF t = "no_conf" THEN nc[log_level]
  ELSE <<>>

\* LoggerEngine.send, lines 250-259: the list of engines an item of
\* log_level is sent to
Resolve(cp, cf, nc, log_level) ==
  ListOf(ResolveTable(cp, cf, nc, log_level), cf, nc, log_level)

\* a send() that catches what engine.send raises and goes on with the list
MutCallsForCatch(lst, item, n, done, failAt) ==
  [i \in 1..Len(lst) |->
     [sink |-> lst[i], text |-> item[2], n |-> n, ok |-> (done + i # failAt)]]

\* a send() that goes through the list from its end
MutCallsForReverse(lst, item, n, done, failAt) ==
  LET upto == IF failAt > done /\ failAt <= done + Len(lst)
                THEN failAt - done ELSE Len(lst)
  IN  [i \in 1..upto |->
         [sink |-> lst[Len(lst) + 1 - i], text |-> item[2], n |-> n,
          ok |-> (done + i # failAt)]]

\* the engine.send(message) calls made for the n-th popped item: all of lst,
\* or those up to the one that raises when call number failAt falls in it
CallsFor(lst, item, n, done, failAt) ==
  LET upto == IF failAt > done /\ failAt <= done + Len(lst)
                THEN failAt - done ELSE Len(lst)
  IN  [i \in 1..upto |->
         [sink |-> lst[i], text |-> item[2], n |-> n, ok |-> (done + i # failAt)]]

\* LoggerEngine.send run to its end on queue q: pops until get() returns
\* None; call number failAt (0: none) of engine.send raises and ends it
RECURSIVE Drain(_, _, _, _, _, _, _)
Drain(q, cp, cf, nc, calls, pops, failAt) ==
  LET r == QueueGet(q) IN
  IF r.item = NoItem
    THEN [err |-> "none", queue |-> r.queue, calls |-> calls, pops |-> pops]
    ELSE LET lst == Resolve(cp, cf, nc, r.item[1])
             new == CallsFor(lst, r.item, Len(pops) + 1, Len(calls), failAt)
         IN  IF new # <<>> /\ ~new[Len(new)].ok
               THEN [err |-> "SinkError", queue |-> r.queue,
                     calls |-> calls \o new, pops |-> Append(pops, r.item)]
               ELSE Drain(r.queue, cp, cf, nc, calls \o new, Append(pops, r.item),
                          failAt)

(***************************************************************************)
(* RouteSpec: single-threaded use of one LoggerEngine.  last.calls and     *)
(* last.pops hold the engine.send calls and the items of a send().         *)
(***************************************************************************)
RMaxQueue == 1

\* levels given to put: the 8 keys and one that is none
RoutePutLevels == {PyStr(k) : k \in LogsLevelKeys} \cup {PyStr("FOO")}

\* levels given to add_engine
RouteLevels == {PyStr("ERROR"), PyStr("FOO"), PyInt(10)}

\* engines given to add_engine, and a value that is none
EngineCandidates ==
  {Sink("LoggerEngineStdout", 1), Sink("LoggerEngineStdout", 2),
   Sink("LoggerEngineStderr", 3), NoEngine}

\* engine.add_engine(log_level, engine)
RAddEngine(log_level, engine) ==
  LET r == AddEngine(conf_present, conf, log_level, engine) IN
  /\ conf_present' = r.conf_present
  /\ conf' = r.conf
  /\ last' = [op |-> "add_engine", level |-> log_level, text |-> "", err |-> r.err,
              item |-> NoItem, before |-> Len(queue), engine |-> engine,
              calls |-> <<>>, pops |-> <<>>, arg |-> PyNone]
  /\ UNCHANGED <<qvars, no_conf, hvars, wvars, mvars, bvars, gvars, xvars>>

\* engine.logs_queue.put(message, log_level)
RPut(message, log_level) ==
  LET r == QueuePut(queue, message, log_level) IN
  /\ Len(r.queue) <= RMaxQueue
  /\ queue' = r.queue
  /\ last' = [op |-> "put", level |-> log_level, text |-> message, err |-> r.err,
              item |-> NoItem, before |-> Len(queue), engine |-> NoEngine,
              calls |-> <<>>, pops |-> <<>>, arg |-> PyNone]
  /\ UNCHANGED <<evars, hvars, wvars, mvars, bvars, gvars, xvars>>

\* engine.send()
RSend(failAt) ==
  LET r == Drain(queue, conf_present, conf, no_conf, <<>>, <<>>, failAt) IN
  /\ queue' = r.queue
  /\ last' = [op |-> "send", level |-> PyNone, text |-> "", err |-> r.err,
              item |-> NoItem, before |-> Len(queue), engine |-> NoEngine,
              calls |-> r.calls, pops |-> r.pops, arg |-> PyNone]
  /\ UNCHANGED <<evars, hvars, wvars, mvars, bvars, gvars, xvars>>

\* the number of engine.send calls a send() makes when none raises
NumCalls == Len(Drain(queue, conf_present, conf, no_conf, <<>>, <<>>, 0).calls)

RouteNext ==
  \/ \E l \in RouteLevels, e \in EngineCandidates : RAddEngine(l, e)
  \/ \E m \in QTexts, l \in RoutePutLevels : RPut(m, l)
  \/ \E f \in 0..NumCalls : RSend(f)

RouteSpec == ApiInit /\ [][RouteNext]_vars

\* C4: on an empty queue, put(T, S) with a valid level succeeds, the get()
\* that follows it returns (S, T) and empties the queue, and a get() on the
\* empty queue returns None and leaves the queue empty.
C4_PutGetRoundTrip ==
  [][/\ (last'.op = "put" /\ InLevelKeys(last'.level)) => last'.err = "none"
     /\ (last.op = "put" /\ last.err = "none" /\ last.before = 0 /\ last'.op = "get")
          => (last'.item = <<last.level.s, last.text>> /\ queue' = <<>>)
     /\ (queue = <<>> /\ last'.op = "get")
          => (last'.item = NoItem /\ queue' = <<>>)]_vars

\* a get() that has just returned the only item of the queue
C4_Witness ==
  last.op = "get" /\ last.item # NoItem /\ last.before = 1 /\ queue = <<>>

\* C5 as claimed: every call of put, message or Log() with a level that is
\* not one of the 8 keys fails and leaves the queue as it was.
C5_AsClaimed ==
  [][(last'.op \in {"put", "message", "Log"} /\ ~InLevelKeys(last'.level))
       => (last'.err # "none" /\ queue' = queue)]_vars

\* C5 amended: put and message fail for every level that is not one of the
\* 8 keys, Log() fails for every level that is not an int among the numeric
\* levels of LogLevels (so for each of the 8 string keys too); a failed call
\* leaves the queue as it was.
C5_InvalidLevelRejected ==
  [][/\ (last'.op \in {"put", "message"} /\ ~InLevelKeys(last'.level))
          => (last'.err # "none" /\ queue' = queue)
     /\ (last'.op = "Log"
           /\ ~(last'.level.kind = "int" /\ last'.level.n \in LogLevelsKeys))
          => (last'.err # "none" /\ queue' = queue)]_vars

\* a put that failed on a queue holding an item
C5_Witness ==
  last.op = "put" /\ last.err = "KeyError" /\ queue # <<>>

(***************************************************************************)
(* ClientSpec: single-threaded use of one LoggerClient, made with or       *)
(* without a queue and a name, and of the engine whose queue it is given.  *)
(***************************************************************************)
CMaxQueue == 2

\* the message arguments: a text and a list of texts
CMessages == {PyStr("ready"), PyList(ErrTexts)}

\* levels given to message()
CLevels == {PyStr("INFO"), PyStr("FOO"), PyInt(10)}

\* LoggerClient(queue, name), lines 40-53, and an engine
ClientInit ==
  /\ EngineInit
  /\ ThreadInit(FALSE)
  /\ leo = FALSE
  /\ lco = FALSE
  /\ cli_queue \in {"none", "engine"}
  /\ cli_name \in ClientNames
  /\ NoLog
  /\ NoFile
  /\ NoRest

\* client.message(message, log_level)
CMessage(message, log_level) ==
  LET r == MessageOn(cli_queue, queue, cli_name, message, log_level) IN
  /\ Len(r.queue) <= CMaxQueue
  /\ queue' = r.queue
  /\ last' = [NoCall EXCEPT !.op = "message", !.level = log_level, !.arg = message,
                            !.err = r.err, !.before = Len(queue)]
  /\ UNCHANGED <<evars, hvars, wvars, mvars, bvars, gvars, xvars>>

\* client.message_alert = message ... client.message_warning = message
CConvenience(op, message) ==
  LET log_level == PyStr(ConvenienceLevel[op])
      r == MessageOn(cli_queue, queue, cli_name, message, log_level)
  IN  /\ Len(r.queue) <= CMaxQueue
      /\ queue' = r.queue
      /\ last' = [NoCall EXCEPT !.op = op, !.level = log_level, !.arg = message,
                                !.err = r.err, !.before = Len(queue)]
      /\ UNCHANGED <<evars, hvars, wvars, mvars, bvars, gvars, xvars>>

\* client.logs_queue = engine.logs_queue
CAttach ==
  /\ cli_queue' = "engine"
  /\ last' = [NoCall EXCEPT !.op = "logs_queue", !.before = Len(queue)]
  /\ UNCHANGED <<qvars, evars, hvars, wvars, mvars, leo, lco, cli_name, gvars, xvars>>

ClientNext ==
  \/ \E m \in CMessages, l \in CLevels : CMessage(m, l)
  \/ \E op \in DOMAIN ConvenienceLevel, m \in CMessages : CConvenience(op, m)
  \/ CAttach
  \/ \E failAt \in 0..NumCalls : RSend(failAt)

ClientSpec == ClientInit /\ [][ClientNext]_vars

(***************************************************************************)
(* Claims about routing, checked under RouteSpec.                          *)
(***************************************************************************)
\* the engines that send() called for its n-th popped item, in call order
SinksOf(calls, n) ==
  LET mine == SelectSeq(calls, LAMBDA c : c.n = n)
  IN  [i \in 1..Len(mine) |-> mine[i].sink]

\* no call made for the n-th popped item raised
NoneFailed(calls, n) == \A i \in 1..Len(calls) : calls[i].n = n => calls[i].ok

IsPrefix(a, b) == Len(a) <= Len(b) /\ \A i \in 1..Len(a) : a[i] = b[i]

\* C6 as claimed: add_engine with a level that is not one of the 8 keys is
\* rejected and leaves the custom table unchanged, so every key of the
\* custom table is one of the 8 levels.
C6_AsClaimed ==
  [][(last'.op = "add_engine" /\ ~InLevelKeys(last'.level))
       => /\ last'.err # "none"
          /\ conf' = conf /\ conf_present' = conf_present
          /\ DOMAIN conf' \subseteq LogsLevelKeys]_vars

\* C7 as claimed: with no add_engine call made, every item that send() pops
\* is sent to at least one engine.
C7_AsClaimed ==
  (last.op = "send" /\ ~conf_present)
    => \A n \in 1..Len(last.pops) : SinksOf(last.calls, n) # <<>>

\* C8: a successful add_engine leaves a custom table that is never empty
\* again, and from then on send() calls, for each item, the engines of the
\* custom list of its level in list order (up to one that raises) and none
\* at all when the level has no custom list.
C8_CustomExclusive ==
  /\ [][(last'.op = "add_engine" /\ last'.err = "none")
          => (conf_present' /\ DOMAIN conf' # {})]_vars
  /\ [][(conf_present /\ DOMAIN conf # {})
          => (conf_present' /\ DOMAIN conf' # {})]_vars
  /\ [][(last'.op = "send" /\ conf_present /\ DOMAIN conf # {})
          => \A n \in 1..Len(last'.pops) :
               LET lvl == last'.pops[n][1]
                   lst == IF lvl \in DOMAIN conf THEN conf[lvl] ELSE <<>>
                   got == SinksOf(last'.calls, n)
               IN  /\ IsPrefix(got, lst)
                   /\ NoneFailed(last'.calls, n) => got = lst]_vars

\* a send() that popped a DEBUG item and called no engine, the custom table
\* holding a list for another level only
C8_Witness ==
  /\ last.op = "send" /\ conf_present /\ "ERROR" \in DOMAIN conf
  /\ \E n \in 1..Len(last.pops) :
       /\ last.pops[n][1] = "DEBUG" /\ "DEBUG" \in DOMAIN no_conf
       /\ SinksOf(last.calls, n) = <<>>

\* the classes of a list of engines
Classes(lst) == [i \in 1..Len(lst) |-> lst[i].cls]

\* C9: the default table is INFO, WARNING, NOTICE -> one stdout engine,
\* DEBUG -> one stderr engine, ERROR, CRITICAL -> stdout then stderr; with
\* no add_engine call made, send() calls for an INFO item and for an ERROR
\* item exactly the default list of its level, which is not empty.
C9_DefaultRouting ==
  /\ DOMAIN no_conf = {"INFO", "WARNING", "NOTICE", "DEBUG", "ERROR", "CRITICAL"}
  /\ \A l \in {"INFO", "WARNING", "NOTICE"} :
       Classes(no_conf[l]) = <<"LoggerEngineStdout">>
  /\ Classes(no_conf["DEBUG"]) = <<"LoggerEngineStderr">>
  /\ \A l \in {"ERROR", "CRITICAL"} :
       Classes(no_conf[l]) = <<"LoggerEngineStdout", "LoggerEngineStderr">>
  /\ (last.op = "send" /\ ~conf_present)
       => \A n \in 1..Len(last.pops) :
            LET lvl == last.pops[n][1]
                got == SinksOf(last.calls, n)
            IN  lvl \in {"INFO", "ERROR"}
                  => /\ got # <<>>
                     /\ IsPrefix(got, no_conf[lvl])
                     /\ NoneFailed(last.calls, n) => got = no_conf[lvl]

\* a send() without custom table that sent an ERROR item to both engines
C9_Witness ==
  /\ last.op = "send" /\ ~conf_present /\ last.err = "none"
  /\ \E n \in 1..Len(last.pops) :
       last.pops[n][1] = "ERROR" /\ Len(SinksOf(last.calls, n)) = 2

\* C10: no list of the custom table holds two engines of one class, and an
\* add_engine of a class that the level's list holds puts the engine at the
\* index of the one it replaces, the list otherwise unchanged.
C10_ReplaceNotDuplicate ==
  /\ [](\A l \in DOMAIN conf : \A i, j \in 1..Len(conf[l]) :
          i # j => conf[l][i].cls # conf[l][j].cls)
  /\ [][(/\ last'.op = "add_engine" /\ last'.err = "none"
         /\ conf_present /\ last'.level.s \in DOMAIN conf
         /\ \E i \in 1..Len(conf[last'.level.s]) :
              conf[last'.level.s][i].cls = last'.engine.cls)
          => LET old == conf[last'.level.s]
                 new == conf'[last'.level.s]
             IN  /\ Len(new) = Len(old)
                 /\ \A i \in 1..Len(old) :
                      new[i] = IF old[i].cls = last'.engine.cls
                                 THEN last'.engine ELSE old[i]
                 /\ \A l \in DOMAIN conf \ {last'.level.s} : conf'[l] = conf[l]
                 /\ DOMAIN conf' = DOMAIN conf]_vars

\* the second stdout engine has replaced the first at index 1 of a list
\* whose index 2 holds the stderr engine
C10_Witness ==
  /\ last.op = "add_engine" /\ last.err = "none"
  /\ last.engine = Sink("LoggerEngineStdout", 2)
  /\ "ERROR" \in DOMAIN conf
  /\ conf["ERROR"] = <<Sink("LoggerEngineStdout", 2), Sink("LoggerEngineStderr", 3)>>

\* C16: when an engine.send call raises inside send(), send() ends with
\* that error: the call that raised is the last call of the send(), made
\* for the last item it popped, and a send() that reports no error made no
\* call that raised.
C16_SinkFailurePropagates ==
  last.op = "send"
    => /\ (last.err = "SinkError") <=> (\E i \in 1..Len(last.calls) : ~last.calls[i].ok)
       /\ last.err \in {"none", "SinkError"}
       /\ \A i \in 1..Len(last.calls) :
            ~last.calls[i].ok
              => i = Len(last.calls) /\ last.calls[i].n = Len(last.pops)

\* a send() under a custom table with two engines for ERROR: the first
\* raised on an ERROR item and the second was not called
C16_Witness ==
  /\ last.op = "send" /\ last.err = "SinkError"
  /\ conf_present /\ "ERROR" \in DOMAIN conf /\ Len(conf["ERROR"]) = 2
  /\ Len(last.pops) = 1 /\ last.pops[1][1] = "ERROR"
  /\ Len(last.calls) = 1 /\ last.calls[1].sink = conf["ERROR"][1]

C35_Frame ==
  [][/\ last'.op = "add_engine" =>
          /\ queue' = queue
          /\ no_conf' = no_conf
          /\ DOMAIN conf \subseteq DOMAIN conf'
          /\ \A l \in DOMAIN conf' :
               (last'.level.kind # "str" \/ l # last'.level.s)
                 => (l \in DOMAIN conf /\ conf'[l] = conf[l])
     /\ last'.op = "send" =>
          /\ conf_present' = conf_present
          /\ conf' = conf
          /\ no_conf' = no_conf
          /\ last'.pops \o queue' = queue]_vars

\* add_engine has put a second engine on the list of ERROR while an item
\* was queued and another level had a list
C35_Witness ==
  /\ last.op = "add_engine"
  /\ last.err = "none"
  /\ last.level = PyStr("ERROR")
  /\ DOMAIN conf = {"ERROR", "FOO"}
  /\ Len(conf["ERROR"]) = 2
  /\ Len(queue) = 1

(***************************************************************************)
(* DispatchSpec: single-threaded add_engine for ERROR, put of up to        *)
(* MaxQueue items and send(), for the order of the engine.send calls.      *)
(***************************************************************************)
\* engines given to add_engine: two of one class and one of another
DispatchEngines ==
  {Sink("LoggerEngineStdout", 1), Sink("LoggerEngineStdout", 2),
   Sink("LoggerEngineStderr", 3)}

\* levels given to put
DispatchLevels == {PyStr("ERROR"), PyStr("DEBUG")}

DispatchNext ==
  \/ \E e \in DispatchEngines : RAddEngine(PyStr("ERROR"), e)
  \/ \E m \in QTexts, l \in DispatchLevels : QPut(m, l)
  \/ \E failAt \in 0..NumCalls : RSend(failAt)

DispatchSpec == ApiInit /\ [][DispatchNext]_vars

\* C21: add_engine with an engine whose class the list of the level does
\* not hold yet appends it at the end of that list; a send() calls the
\* engines of an item in the order of its list and makes all the calls of
\* one item before the first call of the next item popped.
C21_DispatchOrder ==
  /\ [][(/\ last'.op = "add_engine" /\ last'.err = "none"
          /\ conf_present /\ last'.level.s \in DOMAIN conf
          /\ \A i \in 1..Len(conf[last'.level.s]) :
               conf[last'.level.s][i].cls # last'.engine.cls)
         => conf'[last'.level.s] = Append(conf[last'.level.s], last'.engine)]_vars
  /\ [][last'.op = "send"
         => /\ \A i, j \in 1..Len(last'.calls) :
                 i < j => last'.calls[i].n <= last'.calls[j].n
            /\ \A n \in 1..Len(last'.pops) :
                 IsPrefix(SinksOf(last'.calls, n),
                          Resolve(conf_present, conf, no_conf, last'.pops[n][1]))
            /\ \A n \in 1..Len(last'.pops) :
                 (\E i \in 1..Len(last'.calls) : last'.calls[i].n > n)
                   => SinksOf(last'.calls, n)
                        = Resolve(conf_present, conf, no_conf, last'.pops[n][1])]_vars

\* stderr was registered for ERROR before stdout; a send() popped two
\* ERROR items and called stderr, stdout for the first and then stderr,
\* stdout for the second
C21_Witness ==
  /\ last.op = "send" /\ conf_present /\ "ERROR" \in DOMAIN conf
  /\ conf["ERROR"] = <<Sink("LoggerEngineStderr", 3), Sink("LoggerEngineStdout", 1)>>
  /\ Len(last.pops) = 2 /\ last.pops[1][1] = "ERROR" /\ last.pops[2][1] = "ERROR"
  /\ [i \in 1..Len(last.calls) |-> <<last.calls[i].n, last.calls[i].sink.id>>]
       = <<(<<1, 3>>), (<<1, 1>>), (<<2, 3>>), (<<2, 1>>)>>

(***************************************************************************)
(* LateSpec: single-threaded add_engine, put and send() of one             *)
(* LoggerEngine, with the history of what each item's level resolved to    *)
(* when the item was put.                                                  *)
(***************************************************************************)
TMaxQueue == 2

TLevels == {PyStr("ERROR"), PyStr("DEBUG")}

TEngines == {Sink("LoggerEngineStdout", 1), Sink("LoggerEngineStderr", 3)}

\* engine.logs_queue.put(message, log_level)
TPut(message, log_level) ==
  LET r == QueuePut(queue, message, log_level) IN
  /\ Len(r.queue) <= TMaxQueue
  /\ queue' = r.queue
  /\ qroute' = IF r.err = "none"
                 THEN Append(qroute, Resolve(conf_present, conf, no_conf, log_level.s))
                 ELSE qroute
  /\ last' = [op |-> "put", level |-> log_level, text |-> message, err |-> r.err,
              item |-> NoItem, before |-> Len(queue), engine |-> NoEngine,
              calls |-> <<>>, pops |-> <<>>, arg |-> PyNone]
  /\ UNCHANGED <<evars, hvars, wvars, mvars, bvars, gvars, lvars, fvars, dvars, uvars,
                 oqueue, proute>>

\* engine.send(); failAt is the call that raises, 0 for none
TSend(failAt) ==
  LET r == Drain(queue, conf_present, conf, no_conf, <<>>, <<>>, failAt) IN
  /\ queue' = r.queue
  /\ proute' = SubSeq(qroute, 1, Len(r.pops))
  /\ qroute' = SubSeq(qroute, Len(r.pops) + 1, Len(qroute))
  /\ last' = [op |-> "send", level |-> PyNone, text |-> "", err |-> r.err,
              item |-> NoItem, before |-> Len(queue), engine |-> NoEngine,
              calls |-> r.calls, pops |-> r.pops, arg |-> PyNone]
  /\ UNCHANGED <<evars, hvars, wvars, mvars, bvars, gvars, lvars, fvars, dvars, uvars,
                 oqueue>>

LateNext ==
  \/ \E e \in TEngines : RAddEngine(PyStr("ERROR"), e)
  \/ \E m \in QTexts, l \in TLevels : TPut(m, l)
  \/ \E failAt \in 0..NumCalls : TSend(failAt)

LateSpec == ApiInit /\ [][LateNext]_vars

\* the list send() iterates for a level, read from the two tables as they
\* stand
ListNow(level) ==
  IF conf_present /\ DOMAIN conf # {}
    THEN IF level \in DOMAIN conf THEN conf[level] ELSE <<>>
    ELSE IF level \in DOMAIN no_conf THEN no_conf[level] ELSE <<>>

\* C34: the engines send() calls for an item it pops are those of the tables
\* as they stand when send() runs, in list order (all of them when none
\* raises), whatever the level of the item resolved to when it was put
C34_RoutedAtPop ==
  last.op = "send" =>
    \A n \in 1..Len(last.pops) :
      /\ IsPrefix(SinksOf(last.calls, n), ListNow(last.pops[n][1]))
      /\ (last.err = "none" \/ n < Len(last.pops))
           => SinksOf(last.calls, n) = ListNow(last.pops[n][1])

\* an ERROR item was put while ERROR resolved to the two default engines,
\* add_engine then registered a stderr engine for ERROR, and the send()
\* that popped the item called that engine alone
C34_Witness ==
  /\ last.op = "send"
  /\ last.err = "none"
  /\ Len(last.pops) = 2
  /\ last.pops[1][1] = "ERROR"
  /\ proute[1] = DefaultTable["ERROR"]
  /\ SinksOf(last.calls, 1) = <<Sink("LoggerEngineStderr", 3)>>
  /\ proute[2] = <<Sink("LoggerEngineStderr", 3)>>

(***************************************************************************)
(* Claims about the LoggerClient, checked under ClientSpec.                *)
(***************************************************************************)
MessageOps == DOMAIN ConvenienceLevel \cup {"message"}

\* the text that the claims expect in the item: after "[name] " when the
\* client has a name
Named(text) == IF cli_name # PyNone THEN "[" \o cli_name.s \o "] " \o text ELSE text

\* C18: message(text, level) with one of the 8 levels, on a client that has
\* a queue, appends exactly one item (level, text'), text' being text after
\* "[name] " when the client has a name and text itself when it has none;
\* a send() under the default table calls the default engine of an INFO
\* item once, with exactly the text of the item.
C18_MessageEnqueuesOne ==
  /\ [][(/\ last'.op \in MessageOps /\ last'.arg.kind = "str"
          /\ cli_queue = "engine" /\ InLevelKeys(last'.level))
         => /\ last'.err = "none"
            /\ queue' = Append(queue, <<last'.level.s, Named(last'.arg.s)>>)]_vars
  /\ [][(last'.op = "send" /\ ~conf_present)
         => \A n \in 1..Len(last'.pops) :
              (last'.pops[n][1] = "INFO" /\ NoneFailed(last'.calls, n))
                => SelectSeq(last'.calls, LAMBDA c : c.n = n)
                     = <<[sink |-> Sink("LoggerEngineStdout", 101),
                          text |-> last'.pops[n][2], n |-> n, ok |-> TRUE]>>]_vars

\* the client named db has put (INFO, "[db] ready") and a send() has given
\* that text to the default engine of INFO
C18_Witness ==
  /\ cli_name = PyStr("db") /\ last.op = "send"
  /\ last.pops = <<<<"INFO", "[db] ready">>>>
  /\ last.calls = <<[sink |-> Sink("LoggerEngineStdout", 101), text |-> "[db] ready",
                      n |-> 1, ok |-> TRUE]>>

\* C19 as claimed: a convenience setter given the list of texts ErrTexts
\* appends one item of its level for each element, in element order; given
\* one text it appends one item.
C19_AsClaimed ==
  [][(last'.op \in DOMAIN ConvenienceLevel /\ cli_queue = "engine")
       => queue' = queue \o
            (IF last'.arg.kind = "list"
               THEN [i \in 1..Len(ErrTexts) |->
                       <<ConvenienceLevel[last'.op], Named(ErrTexts[i])>>]
               ELSE <<(<<ConvenienceLevel[last'.op], Named(last'.arg.s)>>)>>)]_vars

\* C19 amended: a convenience setter appends exactly one item of its level,
\* whatever it is given: for one text that text, for the list of texts
\* ErrTexts the str() form of the whole list.
C19_OneItemPerCall ==
  [][(last'.op \in DOMAIN ConvenienceLevel /\ cli_queue = "engine")
       => /\ last'.err = "none"
          /\ queue' = Append(queue,
               <<ConvenienceLevel[last'.op],
                 Named(IF last'.arg.kind = "list"
                         THEN "['disk full', 'retrying']"
                         ELSE last'.arg.s)>>)]_vars

\* message_error given the list of two texts, on a client without name,
\* has put one ERROR item on the empty queue
C19_Witness ==
  /\ last.op = "message_error" /\ last.arg = PyList(ErrTexts) /\ last.before = 0
  /\ cli_name = PyNone
  /\ queue = <<(<<"ERROR", "['disk full', 'retrying']">>)>>

\* C20: a client is made without a queue; while it has none, message() and
\* every convenience setter, with one of the 8 levels, raises and leaves
\* the queue of the engine as it was; the logs_queue setter gives it the
\* queue, and from then on the same calls append one item.
C20_UnboundClientFails ==
  /\ [][(/\ last'.op \in MessageOps /\ cli_queue = "none"
          /\ InLevelKeys(last'.level))
         => (last'.err = "AttributeError" /\ queue' = queue)]_vars
  /\ [][(cli_queue = "none" /\ cli_queue' # "none")
         => (last'.op = "logs_queue" /\ queue' = queue)]_vars
  /\ [][(/\ last'.op \in MessageOps /\ cli_queue = "engine"
          /\ InLevelKeys(last'.level))
         => (last'.err = "none" /\ Len(queue') = Len(queue) + 1)]_vars

\* message_info has raised on a client without queue, the queue of the
\* engine being empty
C20_Witness ==
  /\ cli_queue = "none" /\ last.op = "message_info" /\ last.err = "AttributeError"
  /\ queue = <<>>

(***************************************************************************)
(* Spec: the threads.  Producers call LoggerClient.message, the main       *)
(* thread calls add_engine, start(), stop() and join(), and the thread of  *)
(* ThLoggerProcessor executes run().  A step is one atomic operation on    *)
(* the list of LoggerQueue, one test of the stop event, or one             *)
(* engine.send call; sent and popped record the whole run.                 *)
(***************************************************************************)
MaxPush == 3

\* the texts of a producer, in the order it sends them
TextOf ==
  [p \in Procs |->
     IF p = "p1" THEN <<"a1", "a2", "a3", "a4">> ELSE <<"b1", "b2", "b3", "b4">>]

\* levels the producers pass to message()
ProducerLevels == {PyStr("ERROR"), PyStr("DEBUG")}

\* arguments the main thread passes to add_engine
SpecEngines == {Sink("LoggerEngineStdout", 1)}

\* the texts of an item sequence
Texts(items) == {items[i][2] : i \in 1..Len(items)}

\* thread t calls message(text, log_level) on a client of that name
\* that is bound to the queue of the engine
MessageBy(t, name, text, log_level) ==
  LET r == ClientMessage(queue, name, PyStr(text), log_level) IN
  /\ queue' = r.queue
  /\ pushed' = IF r.err = "none"
                 THEN [pushed EXCEPT ![t] = Append(@, r.queue[Len(r.queue)])]
                 ELSE pushed

\* the number of items put so far, by all threads
NumPushed ==
  Len(pushed["p1"]) + Len(pushed["p2"]) + Len(pushed["main"]) + Len(pushed["worker"])

\* a producer's next message() call, while fewer than MaxPush items were put
Produce(p, log_level) ==
  /\ NumPushed < MaxPush
  /\ MessageBy(p, PyNone, TextOf[p][ppos[p] + 1], log_level)
  /\ ppos' = [ppos EXCEPT ![p] = @ + 1]
  /\ UNCHANGED <<evars, hvars, last, bvars, wvars, started, stop_pc, joined, before_stop>>

\* the main thread: engine.add_engine(log_level, engine)
MAddEngine(log_level, engine) ==
  LET r == AddEngine(conf_present, conf, log_level, engine) IN
  /\ ~joined
  /\ conf_present' = r.conf_present
  /\ conf' = r.conf
  /\ UNCHANGED <<qvars, no_conf, hvars, last, bvars, wvars, mvars>>

\* the main thread: start()
Start ==
  /\ ~started
  /\ started' = TRUE
  /\ wpc' = "start"
  /\ UNCHANGED <<qvars, evars, hvars, last, bvars, debug, stop_event, final, cur, tbl, idx,
                 stop_pc, joined, before_stop, ppos, pushed>>

\* run() that does not look at logger_engine and logger_client
MutRunEnterUnchecked ==
  /\ wpc = "start"
  /\ wpc' = "loop"
  /\ UNCHANGED <<qvars, evars, hvars, last, bvars, debug, stop_event, final, cur, tbl, idx,
                 mvars>>

\* run(), lines 318-333: ValueError unless both objects are set (wpc becomes
\* "failed"); then the debug message, through the client, which has the
\* queue of the engine once both are set
RunEnter ==
  /\ wpc = "start"
  /\ IF ~leo \/ ~lco
       THEN wpc' = "failed" /\ UNCHANGED <<queue, pushed>>
       ELSE IF ~debug
              THEN wpc' = "loop" /\ UNCHANGED <<queue, pushed>>
              ELSE /\ MessageBy("worker", cli_name, "[ThLoggerProcessor] Start.",
                                PyStr("DEBUG"))
                   /\ wpc' = "loop"
  /\ UNCHANGED <<evars, hvars, last, bvars, debug, stop_event, final, cur, tbl, idx,
                 started, stop_pc, joined, before_stop, ppos>>

\* run() that ends at the loop's exit, without the last send()
MutRunLoopTestNoFlush ==
  /\ wpc = "loop"
  /\ IF ~stop_event
       THEN wpc' = "get" /\ final' = FALSE
       ELSE wpc' = "done" /\ final' = TRUE
  /\ UNCHANGED <<qvars, evars, hvars, last, bvars, debug, stop_event, cur, tbl, idx, mvars>>

\* run(), line 335: `while not self.stopped`
RunLoopTest ==
  /\ wpc = "loop"
  /\ IF ~stop_event
       THEN wpc' = "get" /\ final' = FALSE
       ELSE IF debug
              THEN wpc' = "stopmsg" /\ final' = final
              ELSE wpc' = "get" /\ final' = TRUE
  /\ UNCHANGED <<qvars, evars, hvars, last, bvars, debug, stop_event, cur, tbl, idx, mvars>>

\* run(), lines 338-340: the debug message before the last send()
RunStopMsg ==
  /\ wpc = "stopmsg"
  /\ MessageBy("worker", cli_name, "[ThLoggerProcessor] Stop.", PyStr("DEBUG"))
  /\ wpc' = "get"
  /\ final' = TRUE
  /\ UNCHANGED <<evars, hvars, last, bvars, debug, stop_event, cur, tbl, idx,
                 started, stop_pc, joined, before_stop, ppos>>

\* a send() whose get() reports an empty queue when one item is left
MutSendGetEarly ==
  LET r == IF Len(queue) = 1 THEN [item |-> NoItem, queue |-> queue]
           ELSE QueueGet(queue) IN
  /\ wpc = "get"
  /\ queue' = r.queue
  /\ IF r.item = NoItem
       THEN /\ wpc' = IF final THEN "done" ELSE "sleep"
            /\ UNCHANGED <<cur, popped>>
       ELSE /\ wpc' = "resolve"
            /\ cur' = r.item
            /\ popped' = Append(popped, r.item)
  /\ UNCHANGED <<evars, sent, last, bvars, debug, stop_event, final, tbl, idx, mvars>>

\* a send() after the loop that finds nothing, whatever the queue holds
MutSendGetLastEmpty ==
  LET r == IF final THEN [item |-> NoItem, queue |-> queue] ELSE QueueGet(queue) IN
  /\ wpc = "get"
  /\ queue' = r.queue
  /\ IF r.item = NoItem
       THEN /\ wpc' = IF final THEN "done" ELSE "sleep"
            /\ UNCHANGED <<cur, popped>>
       ELSE /\ wpc' = "resolve"
            /\ cur' = r.item
            /\ popped' = Append(popped, r.item)
  /\ UNCHANGED <<evars, sent, last, bvars, debug, stop_event, final, tbl, idx, mvars>>

\* send(), lines 244-246: get(); None ends the send()
SendGet ==
  LET r == QueueGet(queue) IN
  /\ wpc = "get"
  /\ queue' = r.queue
  /\ IF r.item = NoItem
       THEN /\ wpc' = IF final THEN "done" ELSE "sleep"
            /\ UNCHANGED <<cur, popped>>
       ELSE /\ wpc' = "resolve"
            /\ cur' = r.item
            /\ popped' = Append(popped, r.item)
  /\ UNCHANGED <<evars, sent, last, bvars, debug, stop_event, final, tbl, idx, mvars>>

\* send(), lines 248-257: the table and the list of the item's level
SendResolve ==
  LET t == ResolveTable(conf_present, conf, no_conf, cur[1]) IN
  /\ wpc = "resolve"
  /\ IF t = "none"
       THEN wpc' = "get" /\ cur' = NoItem /\ tbl' = "none" /\ idx' = 0
       ELSE wpc' = "call" /\ cur' = cur /\ tbl' = t /\ idx' = 1
  /\ UNCHANGED <<qvars, evars, hvars, last, bvars, debug, stop_event, final, mvars>>

\* a send() that gives up the list when engine.send raises, and returns to
\* the loop of run()
MutSendCallSurvives(ok) ==
  LET lst == ListOf(tbl, conf, no_conf, cur[1]) IN
  /\ wpc = "call"
  /\ sent' = Append(sent, [sink |-> lst[idx], text |-> cur[2], n |-> Len(popped),
                           ok |-> ok])
  /\ IF ~ok \/ idx + 1 > Len(lst)
       THEN wpc' = "get" /\ cur' = NoItem /\ tbl' = "none" /\ idx' = 0
       ELSE wpc' = "call" /\ idx' = idx + 1 /\ UNCHANGED <<cur, tbl>>
  /\ UNCHANGED <<qvars, evars, popped, last, bvars, debug, stop_event, final, mvars>>

\* send(), lines 252-259: engine.send(message) on the next engine of the
\* list; it returns (ok) or raises, and what it raises leaves run()
SendCall(ok) ==
  LET lst == ListOf(tbl, conf, no_conf, cur[1]) IN
  /\ wpc = "call"
  /\ sent' = Append(sent, [sink |-> lst[idx], text |-> cur[2], n |-> Len(popped),
                           ok |-> ok])
  /\ IF ~ok
       THEN wpc' = "dead" /\ UNCHANGED <<cur, tbl, idx>>
       ELSE IF idx + 1 > Len(lst)
              THEN wpc' = "get" /\ cur' = NoItem /\ tbl' = "none" /\ idx' = 0
              ELSE wpc' = "call" /\ idx' = idx + 1 /\ UNCHANGED <<cur, tbl>>
  /\ UNCHANGED <<qvars, evars, popped, last, bvars, debug, stop_event, final, mvars>>

\* a loop that calls send() again after the sleep, without testing the event
MutSleepSendAgain ==
  /\ wpc = "sleep"
  /\ wpc' = "get"
  /\ UNCHANGED <<qvars, evars, hvars, last, bvars, debug, stop_event, final, cur, tbl, idx,
                 mvars>>

\* run(), line 337: time.sleep(self.sleep_period)
Sleep ==
  /\ wpc = "sleep"
  /\ wpc' = "loop"
  /\ UNCHANGED <<qvars, evars, hvars, last, bvars, debug, stop_event, final, cur, tbl, idx,
                 mvars>>

\* a stop() without debug that also breaks off the send() in progress
MutStopCallInterrupts ==
  /\ stop_pc = "none" /\ ~debug
  /\ before_stop' = UNION {Texts(pushed[t]) : t \in Threads}
  /\ stop_event' = TRUE
  /\ stop_pc' = "set"
  /\ wpc' = IF wpc \in {"get", "resolve", "call"} THEN "loop" ELSE wpc
  /\ cur' = NoItem /\ tbl' = "none" /\ idx' = 0
  /\ UNCHANGED <<qvars, evars, hvars, last, bvars, debug, final,
                 started, joined, ppos, pushed>>

\* the main thread: stop() is called; without debug it sets the event; with
\* debug it first sends a message through logger_client, and that raises
\* AttributeError when no client is set or the client has no queue
StopCall ==
  /\ stop_pc = "none"
  /\ before_stop' = UNION {Texts(pushed[t]) : t \in Threads}
  /\ IF debug
       THEN IF ~lco \/ cli_queue = "none"
              THEN /\ stop_pc' = "raised"
                   /\ UNCHANGED <<stop_event, queue, pushed>>
              ELSE /\ MessageBy("main", cli_name, "[ThLoggerProcessor] stopping...",
                                PyStr("DEBUG"))
                   /\ stop_pc' = "msg"
                   /\ UNCHANGED stop_event
       ELSE /\ stop_event' = TRUE
            /\ stop_pc' = "set"
            /\ UNCHANGED <<queue, pushed>>
  /\ UNCHANGED <<evars, hvars, last, bvars, debug, wpc, final, cur, tbl, idx,
                 started, joined, ppos>>

\* stop(), line 348, after the debug message
StopSet ==
  /\ stop_pc = "msg"
  /\ stop_event' = TRUE
  /\ stop_pc' = "set"
  /\ UNCHANGED <<qvars, evars, hvars, last, bvars, debug, wpc, final, cur, tbl, idx,
                 started, joined, before_stop, ppos, pushed>>

\* the main thread: join() after stop(); it returns when run() has ended
Join ==
  /\ started /\ stop_pc = "set" /\ ~joined
  /\ wpc \in {"done", "dead", "failed"}
  /\ joined' = TRUE
  /\ UNCHANGED <<qvars, evars, hvars, last, bvars, wvars, started, stop_pc, before_stop,
                 ppos, pushed>>

\* a thread that can be started a second time
MutStartAgainRuns ==
  /\ started
  /\ wpc' = "start"
  /\ last' = [NoCall EXCEPT !.op = "start"]
  /\ UNCHANGED <<qvars, evars, hvars, bvars, debug, stop_event, final, cur, tbl, idx,
                 mvars>>

\* the main thread: start() once more; threading.Thread raises RuntimeError
\* and run() is not called
StartAgain ==
  /\ started
  /\ last' = [NoCall EXCEPT !.op = "start", !.err = "RuntimeError"]
  /\ UNCHANGED <<qvars, evars, hvars, bvars, wvars, mvars>>

\* the logger_engine setter, lines 280-292: a client already set gets the
\* queue of the engine
SetEngine ==
  /\ ~started /\ ~leo
  /\ leo' = TRUE
  /\ cli_queue' = IF lco THEN "engine" ELSE cli_queue
  /\ UNCHANGED <<qvars, evars, hvars, last, lco, cli_name, wvars, mvars>>

\* the logger_client setter, lines 301-313: the client gets the queue of
\* an engine already set when it has none
SetClient ==
  /\ ~started /\ ~lco
  /\ lco' = TRUE
  /\ cli_queue' = IF leo /\ cli_queue = "none" THEN "engine" ELSE cli_queue
  /\ UNCHANGED <<qvars, evars, hvars, last, leo, cli_name, wvars, mvars>>

Init == EngineInit /\ BoundInit /\ NoLog /\ NoFile /\ NoRest /\ \E dbg \in BOOLEAN : ThreadInit(dbg)

\* the history variables of LifeSpec are not kept here
Next ==
  \/ (\E p \in Procs, l \in ProducerLevels : Produce(p, l)) /\ UNCHANGED <<gvars, xvars>>
  \/ (\E e \in SpecEngines : MAddEngine(PyStr("ERROR"), e)) /\ UNCHANGED <<gvars, xvars>>
  \/ Start /\ UNCHANGED <<gvars, xvars>>
  \/ RunEnter /\ UNCHANGED <<gvars, xvars>>
  \/ RunLoopTest /\ UNCHANGED <<gvars, xvars>>
  \/ RunStopMsg /\ UNCHANGED <<gvars, xvars>>
  \/ SendGet /\ UNCHANGED <<gvars, xvars>>
  \/ SendResolve /\ UNCHANGED <<gvars, xvars>>
  \/ (\E ok \in BOOLEAN : SendCall(ok)) /\ UNCHANGED <<gvars, xvars>>
  \/ Sleep /\ UNCHANGED <<gvars, xvars>>
  \/ StopCall /\ UNCHANGED <<gvars, xvars>>
  \/ StopSet /\ UNCHANGED <<gvars, xvars>>
  \/ Join /\ UNCHANGED <<gvars, xvars>>

Spec == Init /\ [][Next]_vars

(***************************************************************************)
(* LifeSpec: the life of one ThLoggerProcessor, from its construction with *)
(* nothing set; one producer; the history variables count what run() does. *)
(***************************************************************************)
MaxCycles == 2

\* ThLoggerProcessor.__init__, and a LoggerClient made with or without the
\* queue of the engine
LifeInit ==
  /\ EngineInit
  /\ \E dbg \in BOOLEAN : ThreadInit(dbg)
  /\ leo = FALSE
  /\ lco = FALSE
  /\ cli_queue \in {"none", "engine"}
  /\ cli_name = PyNone
  /\ NoLog
  /\ NoFile
  /\ NoRest

\* this step begins a pass of the loop of run()
NewCycle == wpc = "loop" /\ wpc' = "get" /\ ~final'

\* this step calls send() from run()
NewDrain == wpc \notin {"get", "resolve", "call"} /\ wpc' = "get"

\* the texts whose put has completed
PushedTexts(ps) == UNION {Texts(ps[t]) : t \in Threads}

\* the history of a step of run(); at most MaxCycles passes of the loop
Observe ==
  /\ NewCycle => ncycles < MaxCycles
  /\ ncycles' = IF NewCycle THEN ncycles + 1 ELSE ncycles
  /\ ndrain' = IF NewDrain THEN ndrain + 1 ELSE ndrain
  /\ late' = IF stop_pc # "none" /\ ~final
               THEN late \cup (PushedTexts(pushed') \ PushedTexts(pushed))
               ELSE late
  /\ flushed' = IF final' /\ popped' # popped
                  THEN flushed \cup {popped'[Len(popped')][2]}
                  ELSE flushed
  /\ stop_first' = IF ~started /\ started' THEN stop_pc \in {"set", "raised"}
                                            ELSE stop_first
  /\ early' = IF ~started' THEN PushedTexts(pushed') ELSE early
  /\ UNCHANGED xvars

LifeNext ==
  \/ SetEngine /\ Observe
  \/ SetClient /\ Observe
  \/ (\E l \in ProducerLevels : Produce("p1", l)) /\ Observe
  \/ Start /\ Observe
  \/ StartAgain /\ Observe
  \/ RunEnter /\ Observe
  \/ RunLoopTest /\ Observe
  \/ RunStopMsg /\ Observe
  \/ SendGet /\ Observe
  \/ SendResolve /\ Observe
  \/ (\E ok \in BOOLEAN : SendCall(ok)) /\ Observe
  \/ Sleep /\ Observe
  \/ StopCall /\ Observe
  \/ StopSet /\ Observe
  \/ Join /\ Observe

LifeSpec == LifeInit /\ [][LifeNext]_vars

(***************************************************************************)
(* BindSpec: a ThLoggerProcessor, a LoggerEngine and a LoggerClient that   *)
(* was made without a queue, with the queue of the engine or with a        *)
(* LoggerQueue of its own; the two setters, message() of the client of the *)
(* ThLoggerProcessor, and send() of the engine.                            *)
(***************************************************************************)
BMaxQueue == 2

BindInit ==
  /\ EngineInit
  /\ ThreadInit(FALSE)
  /\ leo = FALSE
  /\ lco = FALSE
  /\ cli_queue \in {"none", "engine", "other"}
  /\ cli_name = PyNone
  /\ NoLog
  /\ NoFile
  /\ NoRest

\* th.logger_client.message(text, log_level): the put goes to the queue
\* the client holds
BMessage(text, log_level) ==
  LET q == IF cli_queue = "other" THEN oqueue ELSE queue
      r == MessageOn(cli_queue, q, cli_name, PyStr(text), log_level) IN
  /\ lco
  /\ Len(r.queue) <= BMaxQueue
  /\ IF cli_queue = "other"
       THEN oqueue' = r.queue /\ UNCHANGED queue
       ELSE queue' = r.queue /\ UNCHANGED oqueue
  /\ last' = [NoCall EXCEPT !.op = "message", !.level = log_level,
                            !.arg = PyStr(text), !.err = r.err,
                            !.before = Len(queue)]
  /\ UNCHANGED <<evars, hvars, wvars, mvars, bvars, gvars, lvars, fvars, dvars, uvars,
                 rvars>>

BindNext ==
  \/ SetEngine /\ UNCHANGED <<gvars, xvars>>
  \/ SetClient /\ UNCHANGED <<gvars, xvars>>
  \/ \E m \in QTexts, l \in ProducerLevels : BMessage(m, l)
  \/ \E failAt \in 0..NumCalls : RSend(failAt)

BindSpec == BindInit /\ [][BindNext]_vars

\* C32 as claimed: once the logger_engine and the logger_client setters have
\* both been called, in either order and whatever queue the client was made
\* with, the client holds the queue of the engine, and a message() through
\* it that raises nothing adds one item to that queue
C32_AsClaimed ==
  (leo /\ lco) =>
    /\ cli_queue = "engine"
    /\ (last.op = "message" /\ last.err = "none") => Len(queue) = last.before + 1

(***************************************************************************)
(* Claims about the threads, checked under Spec.                           *)
(***************************************************************************)
\* every item whose put has completed, by any thread
AllPushed == UNION {{pushed[t][i] : i \in 1..Len(pushed[t])} : t \in Threads}

\* the item with text t was popped and the loop over its engines has ended
\* without a call that raised
Dispatched(t) ==
  \E n \in 1..Len(popped) :
    popped[n][2] = t /\ cur # popped[n] /\ NoneFailed(sent, n)

\* the item with text t was popped and engine.send was called on every
\* engine of its list, the last of these calls possibly raising
SentToAll(t) ==
  \E n \in 1..Len(popped) :
    /\ popped[n][2] = t
    /\ cur = popped[n]
         => (wpc = "dead" /\ idx = Len(ListOf(tbl, conf, no_conf, cur[1])))

C2_NoLossNoDuplicate ==
  /\ \A i, j \in 1..Len(popped) : i # j => popped[i] # popped[j]
  /\ \A i, j \in 1..Len(queue) : i # j => queue[i] # queue[j]
  /\ \A i \in 1..Len(popped), j \in 1..Len(queue) : popped[i] # queue[j]
  /\ {popped[i] : i \in 1..Len(popped)} \cup {queue[i] : i \in 1..Len(queue)}
       = AllPushed
  /\ Len(popped) + Len(queue) = NumPushed

\* both producers have put items, of which some are popped and one is queued
C2_Witness ==
  /\ Len(pushed["p1"]) >= 1 /\ Len(pushed["p2"]) >= 1
  /\ Len(popped) >= 2 /\ Len(queue) >= 1

\* C3: the items of one thread are popped in the order that thread put
\* them, whatever their levels, and the engine.send calls follow the order
\* of the pops.
C3_PerProducerOrder ==
  /\ \A t \in Threads : \A i, j \in 1..Len(pushed[t]) :
       i < j => \A b \in 1..Len(popped) :
                  popped[b] = pushed[t][j]
                    => \E a \in 1..(b - 1) : popped[a] = pushed[t][i]
  /\ \A k, l \in 1..Len(sent) : k < l => sent[k].n <= sent[l].n

\* p1's DEBUG item put before its ERROR item were both popped, and so was
\* an item of p2
C3_Witness ==
  /\ Len(pushed["p1"]) >= 2
  /\ pushed["p1"][1][1] = "DEBUG" /\ pushed["p1"][2][1] = "ERROR"
  /\ \E a, b \in 1..Len(popped) :
       a < b /\ popped[a] = pushed["p1"][1] /\ popped[b] = pushed["p1"][2]
  /\ \E c \in 1..Len(popped) : popped[c] \in {pushed["p2"][i] : i \in 1..Len(pushed["p2"])}

\* C22: send() returns normally only from a get() that found the queue
\* empty; the items popped followed by the items queued are at every
\* moment the items put, in the order of their puts: a step pops the head
\* of the queue or puts one item at its tail, so every item is popped
\* once, in queue order, and an item put while a send() runs is popped by
\* it or stays queued.
C22_DrainUntilEmpty ==
  /\ [][(wpc = "get" /\ wpc' \in {"sleep", "done"})
         => (queue = <<>> /\ queue' = <<>>)]_vars
  /\ [][\/ popped' \o queue' = popped \o queue
        \/ /\ popped' = popped
           /\ Len(queue') = Len(queue) + 1
           /\ IsPrefix(queue, queue')]_vars
  /\ [][popped' # popped
         => (queue # <<>> /\ popped' = Append(popped, Head(queue))
             /\ queue' = Tail(queue))]_vars

\* a send() of the loop has returned after it popped two items, and an
\* item put since then is queued
C22_Witness ==
  wpc = "sleep" /\ Len(popped) >= 2 /\ Len(queue) >= 1 /\ cur = NoItem

\* some engine.send has raised
SinkFailed == \E i \in 1..Len(sent) : ~sent[i].ok

\* C29 as claimed: after an engine.send has raised the thread of run() is
\* still in its loop, in a send() or has ended normally after the last send()
C29_AsClaimed ==
  SinkFailed => wpc \in {"loop", "get", "resolve", "call", "sleep", "done"}

\* C29: an engine.send that raises ends the thread of run(): the failing
\* call is the last call made, nothing more is popped or sent, the send()
\* after the loop is not called, and what is queued then or put later stays
\* in the queue
C29_SinkFailureEndsWorker ==
  [][/\ SinkFailed' <=> wpc' = "dead"
     /\ wpc' = "dead" => ~sent'[Len(sent')].ok
     /\ wpc = "dead" =>
          /\ wpc' = "dead"
          /\ sent' = sent
          /\ popped' = popped
          /\ final' = final
          /\ IsPrefix(queue, queue')]_vars

\* the first engine.send raised in a pass of the loop; stop() and join()
\* have returned, and two items are still queued
C29_Witness ==
  /\ wpc = "dead"
  /\ ~final
  /\ Len(sent) = 1
  /\ stop_pc = "set"
  /\ joined
  /\ Len(queue) >= 2

\* C30: whatever add_engine calls are interleaved with a send(), the default
\* table stays the one of the constructor, every list of the custom table
\* holds at least one engine and at most one of each class, and the engines
\* called for one popped item are the beginning of one list: the default
\* list of its level or the custom list of its level
C30_OneTablePerItem ==
  /\ no_conf = DefaultTable
  /\ conf_present =>
       \A l \in DOMAIN conf :
         /\ l \in LogsLevelKeys
         /\ conf[l] # <<>>
         /\ \A i, j \in 1..Len(conf[l]) : conf[l][i].cls = conf[l][j].cls => i = j
  /\ \A n \in 1..Len(popped) :
       LET l == popped[n][1] IN
       \/ l \in DOMAIN no_conf /\ IsPrefix(SinksOf(sent, n), no_conf[l])
       \/ l \in DOMAIN conf /\ IsPrefix(SinksOf(sent, n), conf[l])

\* add_engine registered an engine for ERROR while a send() was between the
\* two engines of the default list of an ERROR item, and an ERROR item that
\* was popped before went through the default list alone
C30_Witness ==
  /\ conf_present
  /\ "ERROR" \in DOMAIN conf
  /\ wpc = "call"
  /\ tbl = "no_conf"
  /\ idx = 2
  /\ cur[1] = "ERROR"
  /\ Len(popped) >= 2
  /\ SinksOf(sent, 1) = no_conf["ERROR"]

(***************************************************************************)
(* Claims about the life of the ThLoggerProcessor, checked under LifeSpec. *)
(***************************************************************************)
\* C11: run() calls send() once in each pass of its loop and exactly once
\* more after the loop has seen the event; a run that has ended normally
\* has made one send() call more than it made passes of the loop.
C11_FinalFlush ==
  /\ ndrain = IF final THEN ncycles + 1 ELSE ncycles
  /\ wpc = "done" => final /\ ndrain = ncycles + 1

\* a run of MaxCycles passes that popped an item has ended after its last
\* send()
C11_Witness ==
  wpc = "done" /\ ncycles = MaxCycles /\ ndrain = MaxCycles + 1 /\ Len(popped) >= 1

C13_StoppedIsFinal ==
  [][/\ stop_event => stop_event'
     /\ wpc = "done"
          => /\ wpc' = "done"
             /\ stop_event /\ stop_event'
             /\ popped' = popped /\ sent' = sent
             /\ ndrain' = ndrain /\ ncycles' = ncycles
             /\ IsPrefix(queue, queue')]_vars

\* after the normal end of run() an item was put, which is still queued,
\* and start() was called once more
C13_Witness ==
  /\ wpc = "done" /\ joined
  /\ Len(queue) >= 1
  /\ last.op = "start" /\ last.err = "RuntimeError"

\* C14: a ThLoggerProcessor is constructed with nothing set; started
\* without logger_engine or without logger_client, run() raises ValueError
\* before it sends a message, enters its loop or calls send().
C14_UnboundStartFails ==
  /\ ~started => wpc = "idle"
  /\ (started /\ (~leo \/ ~lco))
       => /\ wpc \in {"start", "failed"}
          /\ ndrain = 0 /\ ncycles = 0
          /\ popped = <<>> /\ sent = <<>> /\ pushed["worker"] = <<>>
  /\ wpc = "failed" => (~leo \/ ~lco)

\* run() has raised in a thread that had an engine and no client, an item
\* being queued
C14_Witness ==
  wpc = "failed" /\ leo /\ ~lco /\ Len(queue) >= 1

\* C15 as claimed: every stop() call, whatever the state of the thread,
\* the debug flag and the client, ends with the event set.
C15_AsClaimed ==
  stop_pc \in {"set", "raised"} => stop_event

\* C24: the steps of stop() leave the thread where it is: a send() in
\* progress keeps its item and its place in the list.  With the event set,
\* a send() of the loop goes on popping and calling engines and returns
\* only from a get() on the empty queue; run() leaves its loop only at
\* the `while` test, with the event set.
C24_StopIsCooperative ==
  /\ [][(stop_event' # stop_event \/ stop_pc' # stop_pc)
         => /\ wpc' = wpc /\ final' = final
            /\ cur' = cur /\ tbl' = tbl /\ idx' = idx
            /\ popped' = popped /\ sent' = sent
            /\ IsPrefix(queue, queue')]_vars
  /\ [][(stop_event /\ ~final /\ wpc \in {"get", "resolve", "call"} /\ wpc' # wpc)
         => /\ wpc' \in {"get", "resolve", "call", "sleep", "dead"}
            /\ wpc' = "sleep" => (wpc = "get" /\ queue = <<>>)
            /\ wpc' = "dead" => (wpc = "call" /\ ~sent'[Len(sent')].ok)]_vars
  /\ [][((final' /\ ~final) \/ (wpc' = "stopmsg" /\ wpc # "stopmsg"))
         => (stop_event /\ wpc \in {"loop", "stopmsg"})]_vars

\* the event is set and the send() of a pass of the loop, which was running
\* when stop() was called, has since popped and dispatched an item put
\* after the call, and returned
C24_Witness ==
  /\ stop_event /\ ~final /\ wpc = "sleep"
  /\ \E t \in late : Dispatched(t)

\* C33 as claimed: when stop() was called before start(), run() begins no
\* pass of its loop and calls send() at most once, and a run() that has
\* ended normally has called send() exactly once, after the loop, and every
\* item put before start() was sent to all the engines of its level
C33_AsClaimed ==
  stop_first =>
    /\ ncycles = 0
    /\ ndrain <= 1
    /\ wpc = "done" => (ndrain = 1 /\ final /\ \A t \in early : Dispatched(t))

(***************************************************************************)
(* FairSpec: a ThLoggerProcessor with engine and client set, one producer  *)
(* and the main thread, under fair scheduling: the thread of run() takes   *)
(* its next step whenever it has one (the sleep ends after sleep_period),  *)
(* and a stop() call that has sent its debug message goes on to set the    *)
(* event.  The producer and the callers of start(), stop() and join() may  *)
(* stop at any point.                                                      *)
(***************************************************************************)
\* a step of the thread of run()
WorkerStep ==
  /\ \/ RunEnter
     \/ RunLoopTest
     \/ RunStopMsg
     \/ SendGet
     \/ SendResolve
     \/ \E ok \in BOOLEAN : SendCall(ok)
     \/ Sleep
  /\ UNCHANGED <<gvars, xvars>>

FairNext ==
  \/ (\E l \in ProducerLevels : Produce("p1", l)) /\ UNCHANGED <<gvars, xvars>>
  \/ Start /\ UNCHANGED <<gvars, xvars>>
  \/ RunEnter /\ UNCHANGED <<gvars, xvars>>
  \/ RunLoopTest /\ UNCHANGED <<gvars, xvars>>
  \/ RunStopMsg /\ UNCHANGED <<gvars, xvars>>
  \/ SendGet /\ UNCHANGED <<gvars, xvars>>
  \/ SendResolve /\ UNCHANGED <<gvars, xvars>>
  \/ (\E ok \in BOOLEAN : SendCall(ok)) /\ UNCHANGED <<gvars, xvars>>
  \/ Sleep /\ UNCHANGED <<gvars, xvars>>
  \/ StopCall /\ UNCHANGED <<gvars, xvars>>
  \/ StopSet /\ UNCHANGED <<gvars, xvars>>
  \/ Join /\ UNCHANGED <<gvars, xvars>>

FairSpec ==
  /\ Init
  /\ [][FairNext]_vars
  /\ WF_vars(WorkerStep)
  /\ WF_vars(StopSet /\ UNCHANGED <<gvars, xvars>>)

\* run() is in its loop
Running == wpc \in {"loop", "get", "resolve", "call", "sleep"}

\* C23: under fair scheduling of the thread, an item that the producer has
\* put while run() is in its loop and stop() was not called is eventually
\* popped and sent to all the engines of its level, unless an engine.send
\* call raises.
C23_EventuallyDispatched ==
  \A t \in {"a1", "a2", "a3", "a4"} :
    (t \in Texts(pushed["p1"]) /\ Running /\ stop_pc = "none")
      ~> (Dispatched(t) \/ wpc = "dead")

\* the second item of the producer was dispatched by a pass of the loop,
\* stop() not having been called
C23_Witness ==
  /\ stop_pc = "none" /\ wpc = "sleep"
  /\ Len(pushed["p1"]) >= 2 /\ Dispatched("a2")

\* C28: under fair scheduling, once stop() was called on a started thread
\* that has engine and client, run() eventually ends, after its last
\* send() unless an engine.send call raised.
C28_StopTerminates ==
  (started /\ stop_pc # "none") ~> (wpc \in {"done", "dead"})

\* run() has ended after stop() and after it popped two items, and join()
\* was not called yet
C28_Witness ==
  /\ wpc = "done" /\ final /\ stop_pc = "set" /\ ~joined
  /\ Len(popped) >= 2 /\ queue = <<>>

(***************************************************************************)
(* LogSpec: single-threaded use of the Log and the LogProcessor of         *)
(* edmctool.  The calls LogProcessor.send makes on its logging.Logger are  *)
(* recorded as [method, line].                                             *)
(***************************************************************************)
\* the lines a Log may hold
MaxLines == 3

\* a setter that keeps the lines when None is assigned
MutSetLogKeep(data, arg) ==
  LET base == IF arg.kind = "list" /\ arg.n = 0 THEN <<>> ELSE data IN
  IF arg.kind = "list" THEN base \o arg.e
  ELSE IF arg.kind = "none" THEN base
  ELSE Append(base, FormatStr(arg))

\* a setter that puts what is assigned in the place of the lines
MutSetLogReplace(data, arg) ==
  IF arg.kind = "list" THEN arg.e
  ELSE IF arg.kind = "none" THEN <<>>
  ELSE <<FormatStr(arg)>>

\* Log.log setter: the list of lines after `log.log = arg`; the elements of
\* the lists are str, and f"{msg}" of a str is the str
SetLog(data, arg) ==
  LET base == IF arg.kind = "none" \/ (arg.kind = "list" /\ arg.n = 0)
                THEN <<>> ELSE data IN
  IF arg.kind = "list" THEN base \o arg.e
  ELSE IF arg.kind = "none" THEN base
  ELSE Append(base, FormatStr(arg))

\* the method of the logging.Logger that LogProcessor.send calls for a level
LoggerMethod(level) ==
  CASE level = 50 -> "critical"
    [] level = 10 -> "debug"
    [] level = 40 -> "error"
    [] level = 20 -> "info"
    [] level = 30 -> "warning"
    [] OTHER -> "notset"

\* the level-named methods a logging.Logger has, and the level of each
LoggerMethods == {"critical", "debug", "error", "info", "warning"}

MethodLevel(method) ==
  CASE method = "critical" -> 50
    [] method = "debug" -> 10
    [] method = "error" -> 40
    [] method = "info" -> 20
    [] method = "warning" -> 30
    [] OTHER -> 0

\* LogProcessor.send(message) of a Log: the calls made on the Logger and the
\* error raised; the attribute is looked up when the first line is reached
SendLog(level, data) ==
  LET m == LoggerMethod(level) IN
  IF data = <<>> THEN [err |-> "none", calls |-> <<>>]
  ELSE IF m \in LoggerMethods
    THEN [err |-> "none",
          calls |-> [i \in 1..Len(data) |-> [method |-> m, line |-> data[i]]]]
  ELSE [err |-> "AttributeError", calls |-> <<>>]

LogTexts == {"up", "down"}

\* what is assigned to Log.log
LogArgs ==
  {PyNone, PyList(<<>>), PyList(<<"up">>), PyList(<<"up", "down">>),
   PyList(<<"down", "up">>), PyInt(7)} \cup {PyStr(t) : t \in LogTexts}

\* what is given to Log()
LogLevelArgs == {PyInt(n) : n \in LogLevelsKeys} \cup {PyInt(7), PyStr("INFO"), PyNone}

LogVarsOther == <<qvars, evars, hvars, last, wvars, mvars, bvars, gvars,
                  fs_kind, fs_text, fp_file, fp_out, yvars>>

\* log = Log(level)
LNew(level) ==
  /\ IF LogInit(level) = "none"
       THEN /\ lg_made' = TRUE
            /\ lg_level' = level.n
            /\ lg_data' = <<>>
       ELSE UNCHANGED <<lg_made, lg_level, lg_data>>
  /\ lg_out' = [op |-> "Log", arg |-> level, before |-> Len(lg_data),
                err |-> LogInit(level), calls |-> <<>>]
  /\ UNCHANGED LogVarsOther

\* log.log = arg
LSetLog(arg) ==
  /\ lg_made
  /\ Len(SetLog(lg_data, arg)) <= MaxLines
  /\ lg_data' = SetLog(lg_data, arg)
  /\ lg_out' = [op |-> "log", arg |-> arg, before |-> Len(lg_data),
                err |-> "none", calls |-> <<>>]
  /\ UNCHANGED <<lg_made, lg_level>>
  /\ UNCHANGED LogVarsOther

\* LogProcessor(name).send(log); arg and before stay those of the last
\* assignment to log.log
LSend ==
  /\ lg_made
  /\ lg_out' = [op |-> "send", arg |-> lg_out.arg, before |-> lg_out.before,
                err |-> SendLog(lg_level, lg_data).err,
                calls |-> SendLog(lg_level, lg_data).calls]
  /\ UNCHANGED <<lg_made, lg_level, lg_data>>
  /\ UNCHANGED LogVarsOther

\* LogProcessor(name).send(message) of a message that is no Log
LSendOther ==
  /\ lg_out' = [op |-> "send_other", arg |-> PyNone, before |-> 0,
                err |-> "TypeError", calls |-> <<>>]
  /\ UNCHANGED <<lg_made, lg_level, lg_data>>
  /\ UNCHANGED LogVarsOther

LogNext ==
  \/ \E l \in LogLevelArgs : LNew(l)
  \/ \E a \in LogArgs : LSetLog(a)
  \/ LSend
  \/ LSendOther

LogSpec == ApiInit /\ [][LogNext]_vars

\* the argument that makes the setter drop the lines
EmptyArg(arg) == arg.kind = "none" \/ (arg.kind = "list" /\ arg.n = 0)

\* C25: assigning None or an empty list to the lines of a Log leaves it with
\* zero lines, whatever its level and whatever lines it held; and sending a
\* Log with zero lines, of any level, raises nothing and makes no call
C25_EmptyLog ==
  /\ (lg_out.op = "log" /\ EmptyArg(lg_out.arg)) => lg_data = <<>>
  /\ (lg_out.op = "send" /\ lg_data = <<>>)
       => (lg_out.err = "none" /\ lg_out.calls = <<>>)

\* a Log of level NOTSET that held lines was assigned None and then sent
C25_Witness ==
  /\ lg_out.op = "send"
  /\ lg_level = 0
  /\ lg_out.arg = PyNone
  /\ lg_out.before >= 2
  /\ lg_data = <<>>
  /\ lg_out.err = "none"
  /\ lg_out.calls = <<>>

\* C26 as claimed: for every level Log() accepts, send raises nothing and
\* makes one call per line, in the order of the lines, at the level of the Log
C26_AsClaimed ==
  lg_out.op = "send" =>
    /\ lg_out.err = "none"
    /\ Len(lg_out.calls) = Len(lg_data)
    /\ \A i \in 1..Len(lg_data) :
         /\ lg_out.calls[i].line = lg_data[i]
         /\ MethodLevel(lg_out.calls[i].method) = lg_level

\* C31 as claimed: once a Log holds lines, no later operation on the same
\* Log changes its level or its lines
C31_AsClaimed ==
  [][(lg_made /\ lg_data # <<>> /\ lg_out'.op \in {"log", "send"})
       => (lg_level' = lg_level /\ lg_data' = lg_data)]_vars

\* C31: the level of a Log never changes, and its lines change only by an
\* assignment to Log.log: None or an empty list removes every line, any
\* other value keeps the lines held, in their order, and adds its own
\* behind them; send() leaves the lines as they are
C31_LinesChangeByAssignment ==
  [][/\ (lg_made /\ lg_out'.op # "Log") => lg_level' = lg_level
     /\ lg_out'.op \in {"send", "send_other"} => lg_data' = lg_data
     /\ lg_out'.op = "log" =>
          IF EmptyArg(lg_out'.arg)
            THEN lg_data' = <<>>
            ELSE /\ IsPrefix(lg_data, lg_data')
                 /\ Len(lg_data') > Len(lg_data)]_vars

\* a Log that held two lines was assigned a third, and holds the three
C31_Witness ==
  /\ lg_out.op = "log"
  /\ lg_out.arg = PyStr("down")
  /\ lg_out.before = 2
  /\ lg_data = <<"up", "down", "down">>

(***************************************************************************)
(* FileSpec: single-threaded use of one FileProcessor of configtool on a   *)
(* file system of three paths.  PathChecker (jsktoolbox.libs.system) is    *)
(* what its property names say: exists, is_file, is_dir and is_symlink of  *)
(* the path, and create() makes a missing path an empty file.              *)
(***************************************************************************)
PathExists(kind) == kind # "missing"

PathIsFile(kind) == kind = "file"

PathIsDir(kind) == kind = "dir"

\* the file system holds no symbolic link
PathIsSymlink(kind) == FALSE

\* PathChecker.create() of a path that is no regular file and no directory
PathCreate(kind, text) ==
  [ret |-> TRUE, err |-> "none", kind |-> "file", text |-> ""]

\* FileProcessor.file_exists
file_exists(kind) ==
  PathExists(kind) /\ (PathIsFile(kind) \/ PathIsSymlink(kind)) /\ ~PathIsDir(kind)

\* a file_create that leaves an existing file empty
MutFileCreateTruncates(kind, text) ==
  IF file_exists(kind)
    THEN [ret |-> TRUE, err |-> "none", kind |-> kind, text |-> ""]
  ELSE IF PathExists(kind) /\ PathIsDir(kind)
    THEN [ret |-> FALSE, err |-> "OSError", kind |-> kind, text |-> text]
  ELSE PathCreate(kind, text)

\* FileProcessor.file_create: what it returns or raises, and the path after
file_create(kind, text) ==
  IF file_exists(kind)
    THEN [ret |-> TRUE, err |-> "none", kind |-> kind, text |-> text]
  ELSE IF PathExists(kind) /\ PathIsDir(kind)
    THEN [ret |-> FALSE, err |-> "OSError", kind |-> kind, text |-> text]
  ELSE PathCreate(kind, text)

\* FileProcessor.read
FileRead(kind, text) == IF file_exists(kind) THEN text ELSE ""

\* FileProcessor.write(data): open(file, "w") leaves data alone in the file
FileWrite(kind, text, data) ==
  LET test == IF file_exists(kind)
                THEN [ret |-> TRUE, err |-> "none", kind |-> kind, text |-> text]
                ELSE file_create(kind, text) IN
  IF test.err = "none" /\ test.ret
    THEN [ret |-> FALSE, err |-> "none", kind |-> "file", text |-> data]
    ELSE [ret |-> FALSE, err |-> test.err, kind |-> test.kind, text |-> test.text]

\* what is written
FileData == {"x = 1", "y = 2"}

FileVarsOther == <<qvars, evars, hvars, last, wvars, mvars, bvars, gvars,
                   lg_made, lg_level, lg_data, lg_out, yvars>>

\* the call of a FileProcessor whose file is None: self._data["file"].exists
FNoFile(op, data) ==
  /\ fp_out' = [op |-> op, data |-> data, ret |-> FALSE, err |-> "AttributeError",
                out |-> "", kind |-> "none", text |-> ""]
  /\ UNCHANGED <<fs_kind, fs_text, fp_file>>

\* fp.file = path
FSetFile(path) ==
  /\ fp_file' = path
  /\ fp_out' = [op |-> "file", data |-> "", ret |-> FALSE, err |-> "none",
                out |-> "", kind |-> fs_kind[path], text |-> fs_text[path]]
  /\ UNCHANGED <<fs_kind, fs_text>>
  /\ UNCHANGED FileVarsOther

\* fp.file_create()
FCreate ==
  /\ IF fp_file = "" THEN FNoFile("file_create", "")
     ELSE LET r == file_create(fs_kind[fp_file], fs_text[fp_file]) IN
          /\ fs_kind' = [fs_kind EXCEPT ![fp_file] = r.kind]
          /\ fs_text' = [fs_text EXCEPT ![fp_file] = r.text]
          /\ fp_out' = [op |-> "file_create", data |-> "", ret |-> r.ret,
                        err |-> r.err, out |-> "",
                        kind |-> fs_kind[fp_file], text |-> fs_text[fp_file]]
          /\ UNCHANGED fp_file
  /\ UNCHANGED FileVarsOther

\* fp.read()
FRead ==
  /\ IF fp_file = "" THEN FNoFile("read", "")
     ELSE /\ fp_out' = [op |-> "read", data |-> "", ret |-> FALSE, err |-> "none",
                        out |-> FileRead(fs_kind[fp_file], fs_text[fp_file]),
                        kind |-> fs_kind[fp_file], text |-> fs_text[fp_file]]
          /\ UNCHANGED <<fs_kind, fs_text, fp_file>>
  /\ UNCHANGED FileVarsOther

\* fp.write(data)
FWrite(data) ==
  /\ IF fp_file = "" THEN FNoFile("write", data)
     ELSE LET r == FileWrite(fs_kind[fp_file], fs_text[fp_file], data) IN
          /\ fs_kind' = [fs_kind EXCEPT ![fp_file] = r.kind]
          /\ fs_text' = [fs_text EXCEPT ![fp_file] = r.text]
          /\ fp_out' = [op |-> "write", data |-> data, ret |-> FALSE,
                        err |-> r.err, out |-> "",
                        kind |-> fs_kind[fp_file], text |-> fs_text[fp_file]]
          /\ UNCHANGED fp_file
  /\ UNCHANGED FileVarsOther

FileNext ==
  \/ \E p \in Paths : FSetFile(p)
  \/ FCreate
  \/ FRead
  \/ \E data \in FileData : FWrite(data)

FileSpec == ApiInit /\ [][FileNext]_vars

\* C27: file_create on a path that is a regular file returns True and leaves
\* the file as it was; write(data) on a missing path raises nothing and makes
\* it a file, and a read() that follows a write(data) returns data; on a path
\* that is a directory file_create and write raise OSError and change
\* nothing in the file system
C27_FileProcessor ==
  [][/\ (fp_out'.op = "file_create" /\ fp_out'.kind = "file")
          => (fp_out'.ret /\ fp_out'.err = "none"
              /\ fs_kind' = fs_kind /\ fs_text' = fs_text)
     /\ (fp_out'.op = "write" /\ fp_out'.kind = "missing")
          => (fp_out'.err = "none" /\ fs_kind'[fp_file] = "file"
              /\ fs_text'[fp_file] = fp_out'.data
              /\ \A p \in Paths \ {fp_file} :
                    fs_kind'[p] = fs_kind[p] /\ fs_text'[p] = fs_text[p])
     /\ (fp_out.op = "write" /\ fp_out.err = "none" /\ fp_out'.op = "read")
          => fp_out'.out = fp_out.data
     /\ (fp_out'.op \in {"file_create", "write"} /\ fp_out'.kind = "dir")
          => (fp_out'.err = "OSError"
              /\ fs_kind' = fs_kind /\ fs_text' = fs_text)]_vars

\* file_create was called on a file that an earlier write had made and
\* filled, while the other path holds a file too
C27_Witness ==
  /\ fp_out.op = "file_create"
  /\ fp_out.kind = "file"
  /\ fp_out.text = "x = 1"
  /\ fp_out.ret
  /\ fp_file = "/tmp/a.conf"
  /\ fs_text["/tmp/a.conf"] = "x = 1"
  /\ fs_text["/tmp/b.conf"] = "y = 2"

(***************************************************************************)
(* DataSpec: single-threaded use of one DataProcessor of configtool.       *)
(* Names are sequences of characters, so that str.strip is computed; the   *)
(* values of the variables are integers.                                   *)
(***************************************************************************)
\* the sections and the variables a DataProcessor may hold
MaxSections == 2

MaxVars == 2

\* str.strip(chars) from the left and from the right
RECURSIVE StripLeft(_, _)
StripLeft(name, chars) ==
  IF name # <<>> /\ Head(name) \in chars THEN StripLeft(Tail(name), chars) ELSE name

RECURSIVE StripRight(_, _)
StripRight(name, chars) ==
  IF name # <<>> /\ name[Len(name)] \in chars
    THEN StripRight(SubSeq(name, 1, Len(name) - 1), chars)
    ELSE name

Strip(name, chars) == StripRight(StripLeft(name, chars), chars)

\* the characters str.strip() removes, and those of strip("[] \n")
WhiteSpace == {" ", "\n", "\t"}

SectionChars == {"[", "]", " ", "\n"}

\* SectionModel(name): parser keeps the stripped name, or raises ValueError
\* when nothing is left
SectionModelNew(name) ==
  LET tmp == Strip(name, SectionChars) IN
  IF tmp # <<>>
    THEN [err |-> "none", section |-> [name |-> tmp, variables |-> <<>>]]
    ELSE [err |-> "ValueError", section |-> [name |-> tmp, variables |-> <<>>]]

\* DataProcessor.sections, as the set `in` is asked of
SectionNames(data) == {data[i].name : i \in 1..Len(data)}

\* DataProcessor.add_section
AddSection(data, name) ==
  IF name \notin SectionNames(data)
    THEN IF SectionModelNew(name).err = "none"
           THEN [err |-> "none", data |-> Append(data, SectionModelNew(name).section)]
           ELSE [err |-> "ValueError", data |-> data]
    ELSE [err |-> "none", data |-> data]

\* the index of the first element of items with that name, 0 for None
RECURSIVE FirstNamed(_, _, _)
FirstNamed(items, name, i) ==
  IF i > Len(items) THEN 0
  ELSE IF items[i].name = name THEN i
  ELSE FirstNamed(items, name, i + 1)

\* DataProcessor.get_section
GetSection(data, name) == FirstNamed(data, name, 1)

\* SectionModel.get_variable
GetVariable(variables, name) == FirstNamed(variables, name, 1)

\* SectionModel.set_variable: the setter of VariableModel.name strips the
\* name, VariableModel(name, value, desc) keeps it as given
SetVariable(variables, name, value) ==
  IF name # NoName /\ GetVariable(variables, name) # 0
    THEN [variables EXCEPT ![GetVariable(variables, name)] =
            [name |-> Strip(name, WhiteSpace), value |-> value]]
    ELSE Append(variables, [name |-> name, value |-> value])

\* DataProcessor.set: the error raised and the dataset after the call
DataSet(data, section, varname, value) ==
  LET added == IF section \notin SectionNames(data)
                 THEN AddSection(data, section)
                 ELSE [err |-> "none", data |-> data]
      i == GetSection(added.data, section) IN
  IF added.err # "none" THEN added
  ELSE IF i = 0 THEN [err |-> "AttributeError", data |-> added.data]
  ELSE [err |-> "none",
        data |-> [added.data EXCEPT ![i].variables = SetVariable(@, varname, value)]]

\* DataProcessor.get(section, varname) with a varname: found is FALSE where
\* it returns None
DataGet(data, section, varname) ==
  IF section \in SectionNames(data)
    THEN LET vs == data[GetSection(data, section)].variables
             i == GetVariable(vs, varname) IN
         IF i # 0
           THEN [err |-> "none", found |-> TRUE, out |-> vs[i].value]
           ELSE [err |-> "none", found |-> FALSE, out |-> 0]
    ELSE [err |-> "KeyError", found |-> FALSE, out |-> 0]

\* the names given for sections and for variables, and the values
SectionArgs == {<<"a">>, <<"[", "a", "]">>, <<"[", "]">>}

VarArgs == {<<"x">>, <<" ", "x">>}

DataValues == {1, 2}

\* the number of variables of the sections from the i-th on
RECURSIVE NumVars(_, _)
NumVars(data, i) ==
  IF i > Len(data) THEN 0 ELSE Len(data[i].variables) + NumVars(data, i + 1)

\* the DataProcessor holds no more than MaxSections sections and MaxVars
\* variables
DataFits(data) == Len(data) <= MaxSections /\ NumVars(data, 1) <= MaxVars

DataVarsOther == <<qvars, evars, hvars, last, wvars, mvars, bvars, gvars,
                   lvars, fvars, oqueue, uvars, rvars>>

\* dp.add_section(name)
DAddSection(name) ==
  LET r == AddSection(dp_data, name) IN
  /\ DataFits(r.data)
  /\ dp_data' = r.data
  /\ dp_out' = [NoDataCall EXCEPT !.op = "add_section", !.section = name,
                                  !.err = r.err]
  /\ UNCHANGED dp_main
  /\ UNCHANGED DataVarsOther

\* dp.main_section = name
DSetMain(name) ==
  LET r == AddSection(dp_data, name) IN
  /\ DataFits(r.data)
  /\ dp_main' = name
  /\ dp_data' = r.data
  /\ dp_out' = [NoDataCall EXCEPT !.op = "main_section", !.section = name,
                                  !.err = r.err]
  /\ UNCHANGED DataVarsOther

\* dp.set(section, varname, value)
DSet(section, varname, value) ==
  LET r == DataSet(dp_data, section, varname, value) IN
  /\ DataFits(r.data)
  /\ dp_data' = r.data
  /\ dp_out' = [NoDataCall EXCEPT !.op = "set", !.section = section,
                                  !.name = varname, !.value = value,
                                  !.err = r.err]
  /\ UNCHANGED dp_main
  /\ UNCHANGED DataVarsOther

\* dp.get(section, varname)
DGet(section, varname) ==
  LET r == DataGet(dp_data, section, varname) IN
  /\ varname # NoName
  /\ dp_out' = [NoDataCall EXCEPT !.op = "get", !.section = section,
                                  !.name = varname, !.err = r.err,
                                  !.found = r.found, !.out = r.out]
  /\ UNCHANGED <<dp_main, dp_data>>
  /\ UNCHANGED DataVarsOther

DataNext ==
  \/ \E n \in SectionArgs : DAddSection(n)
  \/ \E n \in SectionArgs : DSetMain(n)
  \/ \E s \in SectionArgs, n \in VarArgs, v \in DataValues : DSet(s, n, v)
  \/ \E s \in SectionArgs, n \in VarArgs : DGet(s, n)

DataSpec == ApiInit /\ [][DataNext]_vars

\* C36 as claimed: no two stored sections have the same name, and an
\* add_section of a name that is stored leaves the list of sections as it was
C36_AsClaimed ==
  [][/\ \A i, j \in 1..Len(dp_data') : dp_data'[i].name = dp_data'[j].name => i = j
     /\ (dp_out'.op = "add_section" /\ dp_out'.section \in SectionNames(dp_data))
          => dp_data' = dp_data]_vars

\* C37 as claimed: after a set(section, name, value) with a name that is not
\* None has returned, get(section, name) returns value, and no section holds
\* two variables of one name
C37_AsClaimed ==
  /\ (dp_out.op = "set" /\ dp_out.err = "none" /\ dp_out.name # NoName) =>
       LET g == DataGet(dp_data, dp_out.section, dp_out.name) IN
       g.err = "none" /\ g.found /\ g.out = dp_out.value
  /\ \A s \in 1..Len(dp_data) :
       \A i, j \in 1..Len(dp_data[s].variables) :
         (dp_data[s].variables[i].name # NoName
          /\ dp_data[s].variables[i].name = dp_data[s].variables[j].name) => i = j

(***************************************************************************)
(* WordSpec: one Word16 of netaddresstool and the assignments to its       *)
(* value.  A string is a sequence of characters, so that int(value) and    *)
(* int(value, 16) are computed digit by digit.                             *)
(***************************************************************************)
\* a str argument given by its characters, and a Word16 argument holding n
PyChars(chars) == [kind |-> "str", s |-> "", n |-> 0, e |-> chars]

PyWord16(n) == [kind |-> "Word16", s |-> "", n |-> n, e |-> <<>>]

\* the digits of int(): the i-th element has the value i - 1
HexLower == <<"0", "1", "2", "3", "4", "5", "6", "7", "8", "9",
              "a", "b", "c", "d", "e", "f">>

HexUpper == <<"0", "1", "2", "3", "4", "5", "6", "7", "8", "9",
              "A", "B", "C", "D", "E", "F">>

\* the value of the digit c in that base, -1 when it is no digit of it
DigitOf(c, base) ==
  IF \E i \in 1..base : HexLower[i] = c \/ HexUpper[i] = c
    THEN (CHOOSE i \in 1..base : HexLower[i] = c \/ HexUpper[i] = c) - 1
    ELSE -1

\* the number the digits spell after acc, -1 when one of them is no digit
RECURSIVE ParseDigits(_, _, _)
ParseDigits(chars, base, acc) ==
  IF chars = <<>> THEN acc
  ELSE IF DigitOf(Head(chars), base) = -1 THEN -1
  ELSE ParseDigits(Tail(chars), base, acc * base + DigitOf(Head(chars), base))

\* int(value) and int(value, 16): surrounding whitespace, a sign, for base
\* 16 a prefix 0x or 0X, then at least one digit; ok is FALSE where int
\* raises ValueError
PyIntParse(chars, base) ==
  LET t == Strip(chars, WhiteSpace)
      signed == t # <<>> /\ Head(t) \in {"+", "-"}
      u == IF signed THEN Tail(t) ELSE t
      prefixed == base = 16 /\ Len(u) >= 2 /\ u[1] = "0" /\ u[2] \in {"x", "X"}
      digs == IF prefixed THEN SubSeq(u, 3, Len(u)) ELSE u
      m == IF digs = <<>> THEN -1 ELSE ParseDigits(digs, base, 0) IN
  IF m = -1 THEN [ok |-> FALSE, n |-> 0]
  ELSE [ok |-> TRUE, n |-> IF Head(t) = "-" THEN 0 - m ELSE m]

\* value.find("0x") == 0
StartsWith0x(chars) == Len(chars) >= 2 /\ chars[1] = "0" /\ chars[2] = "x"

\* a __check_range that lets 65536 pass
MutCheckRangeWide(value) == value \in 0..65536

\* Word16.__check_range
CheckRange(value) == value \in 0..65535

\* Word16.__is_integer
IsInteger(chars) ==
  IF StartsWith0x(chars) THEN PyIntParse(chars, 16).ok ELSE PyIntParse(chars, 10).ok

\* the int the setter makes of a string that __is_integer accepts
StrToInt(chars) ==
  IF StartsWith0x(chars) THEN PyIntParse(chars, 16).n ELSE PyIntParse(chars, 10).n

\* the setter of Word16.value: the error raised and the value held after it
Word16Set(value, args) ==
  IF args.kind = "int"
    THEN IF CheckRange(args.n)
           THEN [err |-> "none", value |-> args.n]
           ELSE [err |-> "ValueError", value |-> value]
  ELSE IF args.kind = "str"
    THEN IF IsInteger(args.e)
           THEN IF CheckRange(StrToInt(args.e))
                  THEN [err |-> "none", value |-> StrToInt(args.e)]
                  ELSE [err |-> "ValueError", value |-> value]
           ELSE [err |-> "TypeError", value |-> value]
  ELSE IF args.kind = "Word16"
    THEN [err |-> "none", value |-> args.n]
  ELSE [err |-> "TypeError", value |-> value]

\* the arguments assigned: integers, strings, another Word16, None
WordInts == {PyInt(0), PyInt(1), PyInt(65535), PyInt(65536), PyInt(0 - 1)}

WordStrs ==
  {PyChars(<<"0">>), PyChars(<<" ", "7", " ">>),
   PyChars(<<"6", "5", "5", "3", "5">>), PyChars(<<"6", "5", "5", "3", "6">>),
   PyChars(<<"-", "1">>), PyChars(<<"0", "x", "f", "f", "f", "f">>),
   PyChars(<<"0", "x", "1", "0", "0", "0", "0">>), PyChars(<<"0", "x">>),
   PyChars(<<"f", "f">>), PyChars(<<"-", "0", "x", "1">>), PyChars(<<>>),
   PyChars(<<"0", "x", "1", "F">>), PyChars(<<"0", "X", "1", "F">>),
   PyChars(<<"+", "5">>)}

WordArgs == WordInts \cup WordStrs \cup {PyWord16(258), PyNone}

WordVarsOther == <<qvars, evars, hvars, last, wvars, mvars, bvars, gvars,
                   lvars, fvars, oqueue, dvars, rvars>>

\* Word16(value): the object exists when the assignment of __init__ returned
WNew(args) ==
  LET r == Word16Set(0, args) IN
  /\ ~w16_made
  /\ w16_made' = (r.err = "none")
  /\ w16_value' = r.value
  /\ w16_out' = [op |-> "new", arg |-> args, err |-> r.err, before |-> 0]
  /\ UNCHANGED WordVarsOther

\* word.value = args
WSet(args) ==
  LET r == Word16Set(w16_value, args) IN
  /\ w16_made
  /\ w16_value' = r.value
  /\ w16_out' = [op |-> "set", arg |-> args, err |-> r.err, before |-> w16_value]
  /\ UNCHANGED w16_made
  /\ UNCHANGED WordVarsOther

WordNext ==
  \/ \E a \in WordArgs : WNew(a)
  \/ \E a \in WordArgs : WSet(a)

WordSpec == ApiInit /\ [][WordNext]_vars

\* the argument is an integer, or a string __is_integer accepts, outside
\* 0..65535
OutOfRange(args) ==
  \/ args.kind = "int" /\ (args.n < 0 \/ args.n > 65535)
  \/ /\ args.kind = "str"
     /\ IsInteger(args.e)
     /\ (StrToInt(args.e) < 0 \/ StrToInt(args.e) > 65535)

\* C38: the value of a Word16 is always an integer of 0..65535, and an
\* assignment of an integer or a numeric string outside that range raised
\* ValueError and left the value that was held
C38_Word16Range ==
  /\ w16_value \in Int /\ w16_value >= 0 /\ w16_value <= 65535
  /\ (w16_out.op \in {"new", "set"} /\ OutOfRange(w16_out.arg)) =>
       (w16_out.err = "ValueError" /\ w16_value = w16_out.before)

\* C38 happens: 65535 was held when "0x10000" was assigned, which raised
\* ValueError, and 65535 is still held
C38_Witness ==
  /\ w16_made
  /\ w16_out.op = "set"
  /\ w16_out.arg = PyChars(<<"0", "x", "1", "0", "0", "0", "0">>)
  /\ w16_out.err = "ValueError"
  /\ w16_out.before = 65535
  /\ w16_value = 65535

====
